---- MODULE Spec2Model ----
(***************************************************************************)
(* Model of imgparse: the chunked XMP locator (util.py), the elevation     *)
(* lookup cache and the session.txt reader (altitude.py) and the           *)
(* MetadataParser facade (parser.py).                                      *)
(*                                                                         *)
(* Text is modelled as sequences of one-character strings, numbers as      *)
(* integers (metres for altitudes and elevations).                         *)
(***************************************************************************)
EXTENDS Integers, Sequences, FiniteSets, TLC

VARIABLES
    loc,    \* the run of _read_xmp_string: stream, chunk size, buffer, position
    ter,    \* the process-wide lru_cache of hit_terrain_api and its request log
    ses,    \* one call of parse_session_alt: its input and its outcome
    par,    \* one MetadataParser instance, the image it reads and its last call
    rot,    \* the last call of a function of rotations.py
    dec,    \* the state of one cache decorator and the last call through it
    thr     \* the threads inside hit_terrain_api

vars == <<loc, ter, ses, par, rot, dec, thr>>

None == "None"

----------------------------------------------------------------------------
(* Bounds of the model.                                                     *)

\* longest stream, counted in pieces (filler character, markers, marker prefix)
MaxPieces == 3
\* direct calls of hit_terrain_api followed in one run
MaxCalls == 4
\* longest session.txt content tried, in characters
MaxSessionLen == 4
\* most XMP tags an image carries
MaxXmpTags == 2
\* failed fetches (get_exif_data or get_xmp_data raising) followed in one run
MaxFailures == 2
\* elevation requests of one instance's run that the service fails
MaxApiFailures == 1

\* threads that call hit_terrain_api, once each
MaxThreads == 2
\* longest image path tried, in characters: "s3://k" has six
MaxPathLen == 6
\* largest chunk size tried; the sizes 1..MaxChunk include sizes below,
\* equal to and above the length of the close marker, and one that brings
\* the ends of two adjacent close markers in one chunk
MaxChunk == 17

----------------------------------------------------------------------------
(* Sequence helpers.                                                        *)

Max(a, b) == IF a >= b THEN a ELSE b

Min(a, b) == IF a <= b THEN a ELSE b

\* Python's s[from:] with from counted from 0
SliceFrom(s, from) == SubSeq(s, from + 1, Len(s))

\* positions (1-based) at which pat occurs in s
Occurrences(pat, s) ==
    {i \in 1..(Len(s) - Len(pat) + 1) : SubSeq(s, i, i + Len(pat) - 1) = pat}

SetMin(S) == CHOOSE x \in S : \A y \in S : x <= y

SetMax(S) == CHOOSE x \in S : \A y \in S : x >= y

----------------------------------------------------------------------------
(* util.py: the chunked XMP locator.                                        *)

\* the text "<x:xmpmeta" that opens FULL_XMP
XmpOpen == <<"<", "x", ":", "x", "m", "p", "m", "e", "t", "a">>

\* the text of XMP_END
XmpClose == <<"<", "/", "x", ":", "x", "m", "p", "m", "e", "t", "a", ">">>

NoMatch == [found |-> FALSE, text |-> <<>>]

\* the literal 12 of "len(file_so_far) - 12"
TailWindow == 12

\* re.search(XMP_END, s) is not None
XMP_END(s) == Occurrences(XmpClose, s) # {}

\* re.search(FULL_XMP, s): leftmost "<x:xmpmeta", then (greedy, DOTALL) up to
\* the last "</x:xmpmeta>" after it; NoMatch when there is no such match
FULL_XMP(s) ==
    LET opens  == Occurrences(XmpOpen, s)
        closes == Occurrences(XmpClose, s)
    IN  IF opens = {} THEN NoMatch
        ELSE LET o == SetMin(opens)
                 after == {c \in closes : c >= o + Len(XmpOpen)}
             IN  IF after = {} THEN NoMatch
                 ELSE [found |-> TRUE,
                       text |-> SubSeq(s, o, SetMax(after) + Len(XmpClose) - 1)]

\* f.read(CHUNK_SIZE) / the ranged get: the next chunk at offset start_byte
NextChunk(stream, start_byte, size) ==
    SubSeq(stream, start_byte + 1, Min(Len(stream), start_byte + size))

\* a slip that ends the range one byte late, as "bytes=0-65536" does
RangeEndInclusive(start_byte, size) ==
    [reader |-> "xmp", first |-> start_byte, last |-> start_byte + size]

\* Range=f"bytes={start_byte}-{start_byte + CHUNK_SIZE - 1}" of the S3 scan
RangeOfChunk(start_byte, size) ==
    [reader |-> "xmp", first |-> start_byte, last |-> start_byte + size - 1]

\* Range="bytes=0-65536" of the S3 EXIF header read
ExifHeaderEnd == 65536

RangeOfExifHeader == [reader |-> "exif", first |-> 0, last |-> ExifHeaderEnd]

\* a slip that searches the new chunk alone, with no overlap into the buffer
EndMatchNoOverlap(file_so_far, chunk) == XMP_END(chunk)

\* whether one pass of the loop body finds the close marker in the tail window
EndMatch(file_so_far, chunk) ==
    LET start_search_at == Max(0, Len(file_so_far) - TailWindow)
    IN  XMP_END(SliceFrom(file_so_far \o chunk, start_search_at))

\* the streams tried: up to MaxPieces pieces, each a filler character, an
\* open marker, a close marker or a proper prefix of the close marker
Pieces == {<<"a">>, XmpOpen, XmpClose, SubSeq(XmpClose, 1, 7)}

RECURSIVE StreamsOf(_)
StreamsOf(n) ==
    IF n = 0 THEN {<<>>}
    ELSE LET shorter == StreamsOf(n - 1)
         IN  shorter \cup {s \o p : s \in {t \in shorter : TRUE}, p \in Pieces}

Streams == StreamsOf(MaxPieces)

LocIdle == [stream |-> <<>>, size |-> 1, file_so_far |-> <<>>, start_byte |-> 0,
            pc |-> "idle", result |-> <<>>, exc |-> "", requests |-> 0, hits |-> 0,
            first_hit |-> 0, log |-> <<>>, reader |-> ""]

\* _read_xmp_string is entered: nothing read yet
LocStart(stream, size) ==
    [stream |-> stream, size |-> size, file_so_far |-> <<>>, start_byte |-> 0,
     pc |-> "reading", result |-> <<>>, exc |-> "", requests |-> 0, hits |-> 0,
     first_hit |-> 0, log |-> <<>>, reader |-> ""]

\* one iteration of "for chunk in chunk_generator" with a non-empty chunk
ReadChunk ==
    /\ loc.pc = "reading"
    /\ LET chunk == NextChunk(loc.stream, loc.start_byte, loc.size)
           grown == loc.file_so_far \o chunk
           hit   == EndMatch(loc.file_so_far, chunk)
           match == IF hit THEN FULL_XMP(grown) ELSE NoMatch
       IN  /\ chunk # <<>>
           /\ loc' = [loc EXCEPT
                  !.file_so_far = grown,
                  !.start_byte = loc.start_byte + loc.size,
                  !.requests = loc.requests + 1,
                  !.log = Append(@, RangeOfChunk(loc.start_byte, loc.size)),
                  !.hits = IF hit THEN loc.hits + 1 ELSE loc.hits,
                  !.first_hit = IF hit /\ loc.first_hit = 0
                                THEN loc.requests + 1 ELSE loc.first_hit,
                  !.pc = IF match.found THEN "returned" ELSE "reading",
                  !.result = match.text]
    /\ UNCHANGED <<ter, ses, par, rot, dec, thr>>

\* a slip that ends the scan with an empty string instead of the exception
ExhaustedReturnsEmpty ==
    /\ loc.pc = "reading"
    /\ NextChunk(loc.stream, loc.start_byte, loc.size) = <<>>
    /\ loc' = [loc EXCEPT !.requests = loc.requests + 1,
                          !.log = Append(@, RangeOfChunk(loc.start_byte, loc.size)),
                          !.pc = "returned", !.result = <<>>]
    /\ UNCHANGED <<ter, ses, par, rot, dec, thr>>

\* the generator reads an empty chunk and stops; the loop ends and the
\* function raises ParsingError
Exhausted ==
    /\ loc.pc = "reading"
    /\ NextChunk(loc.stream, loc.start_byte, loc.size) = <<>>
    /\ loc' = [loc EXCEPT !.requests = loc.requests + 1,
                          !.log = Append(@, RangeOfChunk(loc.start_byte, loc.size)),
                          !.pc = "raised", !.exc = "ParsingError"]
    /\ UNCHANGED <<ter, ses, par, rot, dec, thr>>

\* get_exif_data on the S3 image of the scan: the one ranged request of the
\* header, made once per instance, before or after the lazy XMP scan (the
\* scan is one synchronous call)
ReadExifHeaderFromS3 ==
    /\ loc.pc # "idle"
    /\ loc.requests = 0 \/ loc.pc \in {"returned", "raised"}
    /\ \A i \in DOMAIN loc.log : loc.log[i].reader # "exif"
    /\ loc' = [loc EXCEPT !.log = Append(@, RangeOfExifHeader)]
    /\ UNCHANGED <<ter, ses, par, rot, dec, thr>>

----------------------------------------------------------------------------
(* Outcomes of a call: a returned value or a raised exception.              *)

Ok(v) == [kind |-> "ok", val |-> v, exc |-> ""]

Raise(e) == [kind |-> "raise", val |-> 0, exc |-> e]

NoCall == [kind |-> "none", val |-> 0, exc |-> ""]

----------------------------------------------------------------------------
(* The chunked readers as functions of the stream and the chunk size.       *)

\* util.py _read_xmp_string from the buffer file_so_far on: a hit without
\* a full match reads on
RECURSIVE ReadXmpStringFrom(_, _, _)
ReadXmpStringFrom(stream, size, file_so_far) ==
    LET chunk == NextChunk(stream, Len(file_so_far), size)
    IN  IF chunk = <<>> THEN Raise("ParsingError")
        ELSE IF EndMatch(file_so_far, chunk)
                /\ FULL_XMP(file_so_far \o chunk).found
        THEN Ok(FULL_XMP(file_so_far \o chunk).text)
        ELSE ReadXmpStringFrom(stream, size, file_so_far \o chunk)

ReadXmpString(stream, size) == ReadXmpStringFrom(stream, size, <<>>)

\* getters.py read_xmp_string_local: start_search_at is taken before the
\* chunk is appended; a hit returns the match or ""
RECURSIVE ReadXmpStringLocalFrom(_, _, _)
ReadXmpStringLocalFrom(stream, size, file_so_far) ==
    LET chunk == NextChunk(stream, Len(file_so_far), size)
    IN  IF chunk = <<>> THEN Raise("ParsingError")
        ELSE IF EndMatch(file_so_far, chunk)
        THEN Ok(FULL_XMP(file_so_far \o chunk).text)
        ELSE ReadXmpStringLocalFrom(stream, size, file_so_far \o chunk)

ReadXmpStringLocal(stream, size) == ReadXmpStringLocalFrom(stream, size, <<>>)

\* the search of read_xmp_string_s3: start_search_at is taken after the
\* chunk is appended
EndMatchAfterAppend(file_so_far, chunk) ==
    LET grown == file_so_far \o chunk
        start_search_at == Max(0, Len(grown) - TailWindow)
    IN  XMP_END(SliceFrom(grown, start_search_at))

\* getters.py read_xmp_string_s3 from offset start_byte on
RECURSIVE ReadXmpStringS3From(_, _, _, _)
ReadXmpStringS3From(stream, size, start_byte, file_so_far) ==
    LET chunk == NextChunk(stream, start_byte, size)
    IN  IF chunk = <<>> THEN Raise("ParsingError")
        ELSE IF EndMatchAfterAppend(file_so_far, chunk)
        THEN Ok(FULL_XMP(file_so_far \o chunk).text)
        ELSE ReadXmpStringS3From(stream, size, start_byte + size,
                                 file_so_far \o chunk)

ReadXmpStringS3(stream, size) == ReadXmpStringS3From(stream, size, 0, <<>>)

\* the call has returned or raised
Read(reader, out) ==
    /\ loc.pc = "reading"
    /\ loc.reader = ""
    /\ loc' = [loc EXCEPT !.reader = reader,
                          !.pc = IF out.kind = "ok" THEN "returned" ELSE "raised",
                          !.result = IF out.kind = "ok" THEN out.val ELSE <<>>,
                          !.exc = out.exc]
    /\ UNCHANGED <<ter, ses, par, rot, dec, thr>>

CallReadXmpStringLocal ==
    \E out \in {ReadXmpStringLocal(loc.stream, loc.size)} : Read("local", out)

CallReadXmpStringS3 ==
    \E out \in {ReadXmpStringS3(loc.stream, loc.size)} : Read("s3", out)

----------------------------------------------------------------------------
(* altitude.py: hit_terrain_api behind functools.lru_cache(maxsize=None).   *)

\* coordinates (lat, lon) and api keys the calls are made with; None is the
\* default api_key, replaced by GOOGLE_API_KEY inside the function
Points == {<<44, 12>>, <<45, 12>>}

ApiKeys == {None, "key"}

Triples == {<<pt[1], pt[2], k>> : pt \in Points, k \in ApiKeys}

\* elevations (metres) the service answers with
Elevations == {0, 50}

\* the JSON body of the answer: its status and results[0].elevation; the
\* status "NONE" stands for a request that brought no JSON body
\* (requests.request or .json() raised)
Responses == [status : {"OK", "ERROR", "NONE"}, elevation : Elevations]

\* a slip that stores nothing in the cache
HitTerrainApiUncached(cache, lat, lon, api_key, response) ==
    IF response.status = "NONE"
    THEN [cache |-> cache, r |-> Raise("RequestException"), requested |-> TRUE]
    ELSE IF response.status # "OK"
    THEN [cache |-> cache, r |-> Raise("TerrainAPIError"), requested |-> TRUE]
    ELSE [cache |-> cache, r |-> Ok(response.elevation), requested |-> TRUE]

\* a slip that memoizes the failure as elevation 0
HitTerrainApiCachesFailure(cache, lat, lon, api_key, response) ==
    LET key == <<lat, lon, api_key>>
    IN  IF key \in DOMAIN cache
        THEN [cache |-> cache, r |-> Ok(cache[key]), requested |-> FALSE]
        ELSE IF response.status # "OK"
        THEN [cache |-> (key :> 0) @@ cache, r |-> Raise("TerrainAPIError"),
              requested |-> TRUE]
        ELSE [cache |-> (key :> response.elevation) @@ cache,
              r |-> Ok(response.elevation), requested |-> TRUE]

\* one call of the cached function: a hit returns the stored value without
\* running the body; a miss runs the body (one GET) and stores the value
\* only when the body returns
HitTerrainApi(cache, lat, lon, api_key, response) ==
    LET key == <<lat, lon, api_key>>
    IN  IF key \in DOMAIN cache
        THEN [cache |-> cache, r |-> Ok(cache[key]), requested |-> FALSE]
        ELSE IF response.status = "NONE"
        THEN [cache |-> cache, r |-> Raise("RequestException"),
              requested |-> TRUE]
        ELSE IF response.status # "OK"
        THEN [cache |-> cache, r |-> Raise("TerrainAPIError"),
              requested |-> TRUE]
        ELSE [cache |-> (key :> response.elevation) @@ cache,
              r |-> Ok(response.elevation), requested |-> TRUE]

\* the threads of the process; none is inside hit_terrain_api
Threads == 1..MaxThreads

ThrIdle ==
    [t \in Threads |->
        [pc |-> "idle", key |-> <<0, 0, None>>, val |-> 0, r |-> NoCall,
         requested |-> FALSE]]

\* the request log: per argument triple the GETs issued and those answered OK
NoRequests == [t \in Triples |-> [sent |-> 0, ok |-> 0]]

Logged(http, key, out, response) ==
    IF out.requested
    THEN [http EXCEPT ![key] =
            [sent |-> @.sent + 1,
             ok   |-> IF response.status = "OK" THEN @.ok + 1 ELSE @.ok]]
    ELSE http

TerIdle == [cache |-> <<>>, http |-> NoRequests, calls |-> 0,
            last |-> [key |-> <<0, 0, None>>, r |-> NoCall, requested |-> FALSE]]

\* some caller invokes hit_terrain_api(lat, lon, api_key); the service would
\* answer with response
CallHitTerrainApi ==
    /\ ter.calls < MaxCalls
    /\ \E key \in Triples, response \in Responses :
         LET out == HitTerrainApi(ter.cache, key[1], key[2], key[3], response)
         IN  ter' = [cache |-> out.cache,
                     http  |-> Logged(ter.http, key, out, response),
                     calls |-> ter.calls + 1,
                     last  |-> [key |-> key, r |-> out.r,
                                requested |-> out.requested]]
    /\ UNCHANGED <<loc, ses, par, rot, dec, thr>>

\* thread t calls hit_terrain_api(lat, lon, api_key): the lru_cache wrapper
\* looks the triple up; a hit returns the stored value, a miss goes on to
\* the body
LookupInCache(t) ==
    /\ thr[t].pc = "idle"
    /\ \E key \in Triples :
          thr' = [thr EXCEPT ![t] =
                    IF key \in DOMAIN ter.cache
                    THEN [@ EXCEPT !.pc = "done", !.key = key,
                                   !.r = Ok(ter.cache[key])]
                    ELSE [@ EXCEPT !.pc = "body", !.key = key]]
    /\ UNCHANGED <<loc, ter, ses, par, rot, dec>>

\* the body: one GET and its answer; no lock is held while the thread waits
RequestElevation(t) ==
    /\ thr[t].pc = "body"
    /\ \E response \in Responses :
          /\ ter' = [ter EXCEPT !.http =
                        Logged(ter.http, thr[t].key, [requested |-> TRUE],
                               response)]
          /\ thr' = [thr EXCEPT ![t] =
                    IF response.status = "NONE"
                    THEN [@ EXCEPT !.pc = "done", !.requested = TRUE,
                                   !.r = Raise("RequestException")]
                    ELSE IF response.status # "OK"
                    THEN [@ EXCEPT !.pc = "done", !.requested = TRUE,
                                   !.r = Raise("TerrainAPIError")]
                    ELSE [@ EXCEPT !.pc = "store", !.requested = TRUE,
                                   !.val = response.elevation]]
    /\ UNCHANGED <<loc, ses, par, rot, dec>>

\* a slip that returns without storing
ReturnUnstored(t) ==
    /\ thr[t].pc = "store"
    /\ thr' = [thr EXCEPT ![t] = [@ EXCEPT !.pc = "done", !.r = Ok(thr[t].val)]]
    /\ UNCHANGED <<loc, ter, ses, par, rot, dec>>

\* the wrapper stores what the body returned, over whatever another thread
\* stored meanwhile, and returns it
StoreInCache(t) ==
    /\ thr[t].pc = "store"
    /\ ter' = [ter EXCEPT !.cache = (thr[t].key :> thr[t].val) @@ @]
    /\ thr' = [thr EXCEPT ![t] = [@ EXCEPT !.pc = "done", !.r = Ok(thr[t].val)]]
    /\ UNCHANGED <<loc, ses, par, rot, dec>>

----------------------------------------------------------------------------
(* Python text primitives used by the parsers.                              *)

Whitespace == {" ", "\n"}

DigitValue == [c \in {"0", "1", "2", "4", "5", "8", "9"} |->
                 CASE c = "0" -> 0 [] c = "1" -> 1 [] c = "2" -> 2
                   [] c = "4" -> 4 [] c = "5" -> 5 [] c = "8" -> 8
                   [] c = "9" -> 9]

RECURSIVE LStrip(_)
LStrip(s) == IF s # <<>> /\ Head(s) \in Whitespace THEN LStrip(Tail(s)) ELSE s

RECURSIVE RStrip(_)
RStrip(s) ==
    IF s # <<>> /\ s[Len(s)] \in Whitespace
    THEN RStrip(SubSeq(s, 1, Len(s) - 1)) ELSE s

\* str.strip()
Strip(s) == RStrip(LStrip(s))

\* str.split(sep) for a one-character separator: the fields between the
\* separators, empty fields kept
RECURSIVE Split(_, _)
Split(s, sep) ==
    LET at == {i \in 1..Len(s) : s[i] = sep}
    IN  IF at = {} THEN <<s>>
        ELSE LET i == SetMin(at)
             IN  <<SubSeq(s, 1, i - 1)>> \o Split(SubSeq(s, i + 1, Len(s)), sep)

\* f.readline(): the text up to and including the first newline
ReadLine(text) ==
    LET at == {i \in 1..Len(text) : text[i] = "\n"}
    IN  IF at = {} THEN text ELSE SubSeq(text, 1, SetMin(at))

RECURSIVE DigitsValue(_)
DigitsValue(s) ==
    IF s = <<>> THEN 0
    ELSE 10 * DigitsValue(SubSeq(s, 1, Len(s) - 1)) + DigitValue[s[Len(s)]]

IsDigits(s) == s # <<>> /\ \A i \in 1..Len(s) : s[i] \in DOMAIN DigitValue

\* float(s) on whole numbers: surrounding whitespace is dropped, one sign is
\* allowed, the rest must be digits; anything else raises ValueError
PyFloat(s) ==
    LET t == Strip(s)
        body == IF t # <<>> /\ t[1] = "-" THEN Tail(t) ELSE t
    IN  IF ~IsDigits(body) THEN Raise("ValueError")
        ELSE IF t[1] = "-" THEN Ok(0 - DigitsValue(body))
        ELSE Ok(DigitsValue(body))

----------------------------------------------------------------------------
(* altitude.py: parse_session_alt.                                          *)

\* parse_session_alt(image_path): is_s3 says the path is an S3Path, is_file
\* that session.txt exists beside the image, text is the file's content
ParseSessionAlt(is_s3, is_file, text) ==
    IF is_s3 THEN Raise("ParsingError")
    ELSE IF ~is_file THEN Raise("ParsingError")
    ELSE LET fields == Split(Strip(ReadLine(text)), "=")
         IN  IF Len(fields) < 2 THEN Raise("IndexError")
             ELSE LET session_alt == fields[2]
                  IN  IF session_alt = <<>> THEN Raise("ParsingError")
                      ELSE PyFloat(session_alt)

\* characters session.txt is written with
SessionChars == {"k", "=", "4", "-", " ", "\n"}

RECURSIVE TextsOf(_, _)
TextsOf(chars, n) ==
    IF n = 0 THEN {<<>>}
    ELSE LET shorter == TextsOf(chars, n - 1)
         IN  shorter \cup {t \o <<c>> : t \in shorter, c \in chars}

SessionTexts == TextsOf(SessionChars, MaxSessionLen)

SesIdle == [pc |-> "idle", is_s3 |-> FALSE, is_file |-> FALSE, text |-> <<>>,
            r |-> NoCall]

\* the call parse_session_alt(image_path) on the files chosen at the start
CallParseSessionAlt ==
    /\ ses.pc = "start"
    /\ ses' = [ses EXCEPT !.pc = "done",
                          !.r = ParseSessionAlt(ses.is_s3, ses.is_file, ses.text)]
    /\ UNCHANGED <<loc, ter, par, rot, dec, thr>>

----------------------------------------------------------------------------
(* parser.py: MetadataParser.                                               *)

(* A call runs against a world w: the two cache slots of the instance, the *)
(* counts of get_exif_data / get_xmp_data calls, and the process-wide       *)
(* elevation cache with its request log. img is the image on disk or in     *)
(* S3; o says how the environment answers during this call.                 *)

NoSlot == [set |-> FALSE, data |-> <<>>]

Slot(d) == [set |-> TRUE, data |-> d]

Out(w, r) == [w |-> w, r |-> r]

Raised(out) == out.r.kind = "raise"

\* the statements after an assignment: x is evaluated once and Rest runs on
\* its value
Bind(x, Rest(_)) == CHOOSE y \in {Rest(v) : v \in {x}} : TRUE

\* a slip that fetches on every access and never fills the slot
ExifDataUncached(img, o, w) ==
    IF o.exif_ok
    THEN Out([w EXCEPT !.n_exif = @ + 1], Ok(img.exif))
    ELSE Out([w EXCEPT !.n_exif = @ + 1, !.fail_exif = @ + 1],
             Raise("ValueError"))

\* a slip that assigns the slot before the getter has returned
ExifDataKeepsFailure(img, o, w) ==
    IF w._exif_data.set THEN Out(w, Ok(w._exif_data.data))
    ELSE IF o.exif_ok
    THEN Out([w EXCEPT !._exif_data = Slot(img.exif), !.n_exif = @ + 1],
             Ok(img.exif))
    ELSE Out([w EXCEPT !._exif_data = Slot(<<>>), !.n_exif = @ + 1,
                       !.fail_exif = @ + 1],
             Raise("ValueError"))

\* property exif_data: fetch on the first access, then the memoized map
ExifData(img, o, w) ==
    IF w._exif_data.set THEN Out(w, Ok(w._exif_data.data))
    ELSE IF o.exif_ok
    THEN Out([w EXCEPT !._exif_data = Slot(img.exif), !.n_exif = @ + 1],
             Ok(img.exif))
    ELSE Out([w EXCEPT !.n_exif = @ + 1, !.fail_exif = @ + 1],
             Raise("ValueError"))

\* property xmp_data: fetch on the first access, then the memoized map
XmpData(img, o, w) ==
    IF w._xmp_data.set THEN Out(w, Ok(w._xmp_data.data))
    ELSE IF o.xmp_ok
    THEN Out([w EXCEPT !._xmp_data = Slot(img.xmp), !.n_xmp = @ + 1],
             Ok(img.xmp))
    ELSE Out([w EXCEPT !.n_xmp = @ + 1, !.fail_xmp = @ + 1],
             Raise("ParsingError"))

\* d[k] of a dict: the value, or KeyError
Item(d, k) == IF k \in DOMAIN d THEN Ok(d[k]) ELSE Raise("KeyError")

\* get_make_and_model(): (make, model), ParsingError when a tag is missing
GetMakeAndModel(img, o, w) ==
    Bind(ExifData(img, o, w), LAMBDA e :
        IF Raised(e) THEN e
        ELSE IF {"Image Make", "Image Model"} \subseteq DOMAIN e.r.val
        THEN Out(e.w, Ok(<<e.r.val["Image Make"], e.r.val["Image Model"]>>))
        ELSE Out(e.w, Raise("ParsingError")))

\* xmp_tags.py: the tag names per sensor; "" marks a tag the sensor lacks
XMPTags ==
    [RELATIVE_ALT |-> "", ROLL |-> "", PITCH |-> "", YAW |-> "",
     FOCAL_LEN |-> "",
     WAVELENGTH_CENTRAL |-> "Camera:CentralWavelength",
     WAVELENGTH_FWHM |-> "Camera:WavelengthFWHM",
     BANDNAME |-> "Camera:BandName",
     LRF_ALT |-> "", LRF_ALT2 |-> "",
     ILS |-> "Camera:SunSensor",
     HOMEPOINT_LAT |-> "", HOMEPOINT_LON |-> "",
     PRINCIPAL_POINT |-> "", DISTORTION |-> "", SELF_DATA |-> "",
     IRRADIANCE |-> "", CAPTURE_UUID |-> "", FLIGHT_UUID |-> "",
     DEWARP_FLAG |-> "",
     X_ACCURACY_M |-> "", Y_ACCURACY_M |-> "", Z_ACCURACY_M |-> ""]

SenteraTags ==
    [XMPTags EXCEPT
        !.RELATIVE_ALT = "Camera:AboveGroundAltitude",
        !.ROLL = "Camera:Roll", !.PITCH = "Camera:Pitch", !.YAW = "Camera:Yaw",
        !.FOCAL_LEN = "Camera:PerspectiveFocalLength",
        !.LRF_ALT = "Sentera:AltimeterCalculatedAGL",
        !.LRF_ALT2 = "Sentera:AltimeterCalcuatedAGL",
        !.HOMEPOINT_LAT = "SENTERA:HomePointLatitude",
        !.HOMEPOINT_LON = "SENTERA:HomePointLongitude",
        !.PRINCIPAL_POINT = "Camera:PrincipalPoint",
        !.DISTORTION = "Camera:PerspectiveDistortion",
        !.CAPTURE_UUID = "Camera:CaptureUUID",
        !.FLIGHT_UUID = "Camera:FlightUUID",
        !.X_ACCURACY_M = "Camera:GPSXYAccuracy",
        !.Y_ACCURACY_M = "Camera:GPSXYAccuracy",
        !.Z_ACCURACY_M = "Camera:GPSZAccuracy"]

DJITags ==
    [XMPTags EXCEPT
        !.RELATIVE_ALT = "drone-dji:RelativeAltitude",
        !.ROLL = "drone-dji:GimbalRollDegree",
        !.PITCH = "drone-dji:GimbalPitchDegree",
        !.YAW = "drone-dji:GimbalYawDegree",
        !.FOCAL_LEN = "drone-dji:CalibratedFocalLength",
        !.SELF_DATA = "drone-dji:SelfData",
        !.IRRADIANCE = "Camera:Irradiance",
        !.CAPTURE_UUID = "drone-dji:CaptureUUID",
        !.DEWARP_FLAG = "drone-dji:DewarpFlag",
        !.DISTORTION = "drone-dji:DewarpData",
        !.X_ACCURACY_M = "drone-dji:RtkStdLon",
        !.Y_ACCURACY_M = "drone-dji:RtkStdLat",
        !.Z_ACCURACY_M = "drone-dji:RtkStdHgt"]

MicaSenseTags ==
    [XMPTags EXCEPT
        !.CAPTURE_UUID = "MicaSense:CaptureId",
        !.IRRADIANCE = "Camera:Irradiance",
        !.X_ACCURACY_M = "Camera:GPSXYAccuracy",
        !.Y_ACCURACY_M = "Camera:GPSXYAccuracy",
        !.Z_ACCURACY_M = "Camera:GPSZAccuracy"]

ParrotTags == [XMPTags EXCEPT !.CAPTURE_UUID = "Camera:CaptureUUID"]

\* a slip that gives the DJI tag names to make DJI alone
TagsForDjiOnly(make) ==
    CASE make = "Sentera" -> SenteraTags
      [] make = "DJI" -> DJITags
      [] make = "MicaSense" -> MicaSenseTags
      [] make = "Parrot" -> ParrotTags
      [] OTHER -> XMPTags

\* the branches of property xmp_tags
TagsFor(make) ==
    CASE make = "Sentera" -> SenteraTags
      [] make \in {"DJI", "Hasselblad"} -> DJITags
      [] make = "MicaSense" -> MicaSenseTags
      [] make = "Parrot" -> ParrotTags
      [] OTHER -> XMPTags

\* property xmp_tags: the tag names for the image's make
XmpTags(img, o, w) ==
    Bind(GetMakeAndModel(img, o, w), LAMBDA mm :
        IF Raised(mm) THEN mm ELSE Out(mm.w, Ok(TagsFor(mm.r.val[1]))))

\* self.xmp_data[self.xmp_tags.<key>]: the XMP map is read first, then the
\* tag names (which need the make), then the item is looked up
XmpItem(img, o, w, key) ==
    Bind(XmpData(img, o, w), LAMBDA x :
        IF Raised(x) THEN x
        ELSE Bind(XmpTags(img, o, x.w), LAMBDA t :
            IF Raised(t) THEN t
            ELSE Out(t.w, Item(x.r.val, t.r.val[key]))))

\* float(self.xmp_data[self.xmp_tags.<key>])
XmpFloat(img, o, w, key) ==
    Bind(XmpItem(img, o, w, key), LAMBDA x :
        IF Raised(x) THEN x ELSE Out(x.w, PyFloat(x.r.val)))

\* util.convert_to_float(tag, index): values[index].num / values[index].den,
\* on whole numbers
ConvertToFloat(tag, index) == tag[index + 1][1] \div tag[index + 1][2]

\* util.convert_to_degrees(tag): degrees + minutes / 60 + seconds / 3600,
\* on whole degrees
ConvertToDegrees(tag) ==
    ConvertToFloat(tag, 0) + ConvertToFloat(tag, 1) \div 60
        + ConvertToFloat(tag, 2) \div 3600

\* get_altitude_msl()
GetAltitudeMsl(img, o, w) ==
    Bind(ExifData(img, o, w), LAMBDA e :
        IF Raised(e) THEN e
        ELSE IF "GPS GPSAltitude" \in DOMAIN e.r.val
        THEN Out(e.w, Ok(ConvertToFloat(e.r.val["GPS GPSAltitude"], 0)))
        ELSE Out(e.w, Raise("ParsingError")))

\* the sign a hemisphere reference gives to the degrees
Signed(degrees, ref, positive) ==
    IF ref # positive THEN 0 - degrees ELSE degrees

\* get_lat_lon()
GetLatLon(img, o, w) ==
    Bind(ExifData(img, o, w), LAMBDA e :
        IF Raised(e) THEN e
        ELSE IF ~({"GPS GPSLatitude", "GPS GPSLatitudeRef", "GPS GPSLongitude",
                   "GPS GPSLongitudeRef"} \subseteq DOMAIN e.r.val)
        THEN Out(e.w, Raise("ParsingError"))
        ELSE Out(e.w, Ok(<<
                Signed(ConvertToDegrees(e.r.val["GPS GPSLatitude"]),
                       e.r.val["GPS GPSLatitudeRef"], "N"),
                Signed(ConvertToDegrees(e.r.val["GPS GPSLongitude"]),
                       e.r.val["GPS GPSLongitudeRef"], "E")>>)))

\* except KeyError: raise ParsingError; any other outcome passes
KeyErrorAsParsingError(out) ==
    IF Raised(out) /\ out.r.exc = "KeyError"
    THEN Out(out.w, Raise("ParsingError")) ELSE out

\* a slip that raises for every make when the tag is missing
GetRelativeAltitudeDefaultNoSession(img, o, w) ==
    Bind(XmpFloat(img, o, w, "RELATIVE_ALT"), LAMBDA x :
        KeyErrorAsParsingError(x))

\* the Sentera branch of _get_relative_altitude_default
SessionFallback(img, o, w) ==
    Bind(GetAltitudeMsl(img, o, w), LAMBDA abs_alt :
        IF Raised(abs_alt) THEN abs_alt
        ELSE Bind(ParseSessionAlt(img.is_s3, img.session_is_file,
                                  img.session_text), LAMBDA session_alt :
            IF session_alt.kind = "raise" THEN Out(abs_alt.w, session_alt)
            ELSE Out(abs_alt.w, Ok(abs_alt.r.val - session_alt.val))))

\* _get_relative_altitude_default()
GetRelativeAltitudeDefault(img, o, w) ==
    Bind(GetMakeAndModel(img, o, w), LAMBDA mm :
        IF Raised(mm) THEN mm
        ELSE Bind(XmpFloat(img, o, mm.w, "RELATIVE_ALT"), LAMBDA x :
            IF ~Raised(x) \/ x.r.exc # "KeyError" THEN x
            ELSE IF mm.r.val[1] = "Sentera"
            THEN SessionFallback(img, o, x.w)
            ELSE Out(x.w, Raise("ParsingError"))))

\* a slip that never tries the legacy tag
GetLrfAltitudePrimaryOnly(img, o, w) ==
    Bind(XmpFloat(img, o, w, "LRF_ALT"), LAMBDA x :
        KeyErrorAsParsingError(x))

\* _get_lrf_altitude()
GetLrfAltitude(img, o, w) ==
    Bind(XmpFloat(img, o, w, "LRF_ALT"), LAMBDA x :
        IF ~Raised(x) \/ x.r.exc # "KeyError" THEN x
        ELSE Bind(XmpFloat(img, o, x.w, "LRF_ALT2"), LAMBDA y :
            KeyErrorAsParsingError(y)))

\* the DJI branch of _get_home_point: the first two fields of SelfData
DjiHomePoint(img, o, w) ==
    Bind(XmpItem(img, o, w, "SELF_DATA"), LAMBDA x :
        IF Raised(x) THEN KeyErrorAsParsingError(x)
        ELSE Bind(Split(x.r.val, "|"), LAMBDA self_data :
            IF Len(self_data) # 4 THEN Out(x.w, Raise("ParsingError"))
            ELSE Bind(<<PyFloat(self_data[1]), PyFloat(self_data[2])>>,
                      LAMBDA ll :
                IF ll[1].kind = "raise" THEN Out(x.w, ll[1])
                ELSE IF ll[2].kind = "raise" THEN Out(x.w, ll[2])
                ELSE Out(x.w, Ok(<<ll[1].val, ll[2].val>>)))))

\* the Sentera branch of _get_home_point: the two home point tags
SenteraHomePoint(img, o, w) ==
    Bind(XmpFloat(img, o, w, "HOMEPOINT_LAT"), LAMBDA lat :
        IF Raised(lat) THEN KeyErrorAsParsingError(lat)
        ELSE Bind(XmpFloat(img, o, lat.w, "HOMEPOINT_LON"), LAMBDA lon :
            IF Raised(lon) THEN KeyErrorAsParsingError(lon)
            ELSE Out(lon.w, Ok(<<lat.r.val, lon.r.val>>))))

\* a slip that reads SelfData for every make of the DJI tag profile
GetHomePointByProfile(img, o, w) ==
    Bind(GetMakeAndModel(img, o, w), LAMBDA mm :
        IF Raised(mm) THEN mm
        ELSE IF mm.r.val[1] \in {"DJI", "Hasselblad"}
        THEN DjiHomePoint(img, o, mm.w)
        ELSE IF mm.r.val[1] = "Sentera" THEN SenteraHomePoint(img, o, mm.w)
        ELSE Out(mm.w, Raise("ParsingError")))

\* _get_home_point()
GetHomePoint(img, o, w) ==
    Bind(GetMakeAndModel(img, o, w), LAMBDA mm :
        IF Raised(mm) THEN mm
        ELSE IF mm.r.val[1] = "DJI" THEN DjiHomePoint(img, o, mm.w)
        ELSE IF mm.r.val[1] = "Sentera" THEN SenteraHomePoint(img, o, mm.w)
        ELSE Out(mm.w, Raise("ParsingError")))

\* hit_terrain_api(lat, lon, api_key) called from the instance: the cache
\* and the request log of the process are part of the world
TerrainCall(w, lat, lon, api_key, response) ==
    Bind(HitTerrainApi(w.cache, lat, lon, api_key, response), LAMBDA h :
        Out([w EXCEPT !.cache = h.cache,
                      !.http = Logged(w.http, <<lat, lon, api_key>>, h,
                                      response)],
            h.r))

Lookups(out, home, image) ==
    [w |-> out.w, r |-> out.r, home |-> home, image |-> image]

\* the two lookups of _get_terrain_altitude, home point first; home and
\* image record what they gave, r is the pair of elevations
BothElevations(o, w, home, image, terrain_api_key) ==
    Bind(TerrainCall(w, home[1], home[2], terrain_api_key, o.home_response),
         LAMBDA he :
        IF Raised(he) THEN Lookups(he, he.r, NoCall)
        ELSE Bind(TerrainCall(he.w, image[1], image[2], terrain_api_key,
                              o.image_response), LAMBDA ie :
            IF Raised(ie) THEN Lookups(ie, he.r, ie.r)
            ELSE Lookups(Out(ie.w, Ok(<<he.r.val, ie.r.val>>)), he.r, ie.r)))

\* the two points of _get_terrain_altitude: home point, then image
HomeAndImage(img, o, w) ==
    Bind(GetHomePoint(img, o, w), LAMBDA hp :
        IF Raised(hp) THEN hp
        ELSE Bind(GetLatLon(img, o, hp.w), LAMBDA ll :
            IF Raised(ll) THEN ll
            ELSE Out(ll.w, Ok(<<hp.r.val, ll.r.val>>))))

\* a slip that subtracts the wrong way round
GetTerrainAltitudeSwapped(img, o, w, terrain_api_key) ==
    Bind(HomeAndImage(img, o, w), LAMBDA pts :
        IF Raised(pts) THEN Lookups(pts, NoCall, NoCall)
        ELSE Bind(BothElevations(o, pts.w, pts.r.val[1], pts.r.val[2],
                                 terrain_api_key), LAMBDA el :
            IF Raised(el) THEN el
            ELSE [el EXCEPT !.r = Ok(el.r.val[2] - el.r.val[1])]))

\* _get_terrain_altitude(terrain_api_key): home elevation minus image
\* elevation
GetTerrainAltitude(img, o, w, terrain_api_key) ==
    Bind(HomeAndImage(img, o, w), LAMBDA pts :
        IF Raised(pts) THEN Lookups(pts, NoCall, NoCall)
        ELSE Bind(BothElevations(o, pts.w, pts.r.val[1], pts.r.val[2],
                                 terrain_api_key), LAMBDA el :
            IF Raised(el) THEN el
            ELSE [el EXCEPT !.r = Ok(el.r.val[1] - el.r.val[2])]))

\* the exceptions get_relative_altitude handles
Handled == {"ParsingError", "TerrainAPIError"}

\* the try block of get_relative_altitude
Attempt(img, o, w, alt_source, terrain_api_key) ==
    IF alt_source = "lrf"
    THEN Lookups(GetLrfAltitude(img, o, w), NoCall, NoCall)
    ELSE IF alt_source = "terrain"
    THEN GetTerrainAltitude(img, o, w, terrain_api_key)
    ELSE Lookups(Out(w, Ok(0)), NoCall, NoCall)

\* return self._get_relative_altitude_default() + terrain_alt
DefaultPlus(img, o, attempt, terrain_alt) ==
    Bind(GetRelativeAltitudeDefault(img, o, attempt.w), LAMBDA d :
        IF Raised(d) THEN Lookups(d, attempt.home, attempt.image)
        ELSE Lookups(Out(d.w, Ok(d.r.val + terrain_alt)),
                     attempt.home, attempt.image))

\* a slip that handles ParsingError alone
GetRelativeAltitudeUnhandledApi(img, o, w, alt_source, terrain_api_key, fallback) ==
    Bind(Attempt(img, o, w, alt_source, terrain_api_key), LAMBDA attempt :
        IF Raised(attempt)
        THEN IF attempt.r.exc = "ParsingError" /\ fallback
             THEN DefaultPlus(img, o, attempt, 0)
             ELSE attempt
        ELSE IF alt_source = "lrf" THEN attempt
        ELSE DefaultPlus(img, o, attempt, attempt.r.val))

\* get_relative_altitude(alt_source, terrain_api_key, fallback)
GetRelativeAltitude(img, o, w, alt_source, terrain_api_key, fallback) ==
    Bind(Attempt(img, o, w, alt_source, terrain_api_key), LAMBDA attempt :
        IF Raised(attempt)
        THEN IF attempt.r.exc \in Handled /\ fallback
             THEN DefaultPlus(img, o, attempt, 0)
             ELSE attempt
        ELSE IF alt_source = "lrf" THEN attempt
        ELSE DefaultPlus(img, o, attempt, attempt.r.val))

----------------------------------------------------------------------------
(* The function API: module-level getters that take the image path and,     *)
(* optionally, the EXIF and XMP data read earlier. A data argument is how   *)
(* it is passed and its value, NoSlot for None; the data of an image holds  *)
(* more tags than the ones listed here, so that a dict is empty only where  *)
(* the argument says so. Within a call the value of the argument stands in  *)
(* the world where an instance has its slot; n_exif and n_xmp count the     *)
(* calls of get_exif_data and get_xmp_data.                                 *)

Arg(how, value, empty) == [how |-> how, value |-> value, empty |-> empty]

NotPassed == Arg("absent", NoSlot, FALSE)

\* bool(value) of None or a dict
Truthy(arg) == arg.value.set /\ ~arg.empty

\* get_from_args_or_kwargs: the keyword if its value is truthy, else the
\* positional argument, else None
GetFromArgsOrKwargs(arg) ==
    IF arg.how = "keyword" /\ Truthy(arg) THEN arg.value
    ELSE IF arg.how = "positional" THEN arg.value
    ELSE NoSlot

\* set_in_args_or_kwargs: the keyword if it is there with a truthy value,
\* else the positional argument if there is one, else (IndexError) a new
\* keyword
SetInArgsOrKwargs(arg, param_value) ==
    IF arg.how = "keyword" /\ Truthy(arg) THEN Arg("keyword", param_value, FALSE)
    ELSE IF arg.how = "positional" THEN Arg("positional", param_value, FALSE)
    ELSE Arg("keyword", param_value, FALSE)

\* cache("exif_data", "xmp_data", using="image_path") on a function
\* func(image_path, exif_data=None, xmp_data=None)
ArgsToCache == {"exif_data", "xmp_data"}

\* cache_decorator.using = None, cache_decorator.cache = {}; origin notes for
\* every entry the image_path of the call whose argument it was
DecIdle ==
    [using |-> None, cache |-> <<>>, origin |-> <<>>,
     last |-> [using |-> None, passed |-> <<>>, received |-> <<>>,
               injected |-> {}, dropped |-> {}]]

\* the first branch of cache_inner: what func will receive
Injected(d, using_value, passed, cache_arg) ==
    IF d.using = using_value /\ cache_arg \in DOMAIN d.cache
    THEN SetInArgsOrKwargs(passed[cache_arg], Slot(d.cache[cache_arg]))
    ELSE passed[cache_arg]

\* the names whose value found in the arguments is truthy
Supplied(args) ==
    {cache_arg \in ArgsToCache :
        args[cache_arg].how # "absent" /\ Truthy(args[cache_arg])}

\* a slip that keeps the entries of another image
CacheInnerKeepsAll(d, using_value, passed) ==
    LET received == [a \in ArgsToCache |-> Injected(d, using_value, passed, a)]
        kept == DOMAIN d.cache
        names == kept \cup Supplied(received)
    IN  [using |-> using_value,
         cache |-> [a \in names |->
                      IF a \in Supplied(received)
                      THEN GetFromArgsOrKwargs(received[a]).data
                      ELSE d.cache[a]],
         origin |-> [a \in names |->
                      IF a \in kept THEN d.origin[a] ELSE using_value],
         last |-> [using |-> using_value, passed |-> passed,
                   received |-> received,
                   injected |-> IF d.using = using_value
                                THEN DOMAIN d.cache ELSE {},
                   dropped |-> {}]]

\* cache_inner: inject on a match of using, else empty the cache; then store
\* every truthy value of the arguments; func is called with received
CacheInner(d, using_value, passed) ==
    LET received == [a \in ArgsToCache |-> Injected(d, using_value, passed, a)]
        kept == IF d.using = using_value THEN DOMAIN d.cache ELSE {}
        names == kept \cup Supplied(received)
    IN  [using |-> using_value,
         cache |-> [a \in names |->
                      IF a \in Supplied(received)
                      THEN GetFromArgsOrKwargs(received[a]).data
                      ELSE d.cache[a]],
         origin |-> [a \in names |->
                      IF a \in kept THEN d.origin[a] ELSE using_value],
         last |-> [using |-> using_value, passed |-> passed,
                   received |-> received,
                   injected |-> kept,
                   dropped |-> DOMAIN d.cache \ kept]]

\* the image paths and the data the decorated function is called with
UsingValues == {"a.jpg", "b.jpg"}

DataValues == {<<"d1">>, <<"d2">>}

\* how a caller passes one of the data arguments: not at all, a dict by
\* position or by keyword, or an empty dict
CallerArgs ==
    {NotPassed, Arg("keyword", Slot(<<>>), TRUE)}
    \cup {Arg(how, Slot(data), FALSE) :
            how \in {"positional", "keyword"}, data \in DataValues}

\* a call of the decorated function
CallCached ==
    /\ \E using_value \in UsingValues, exif_data \in CallerArgs,
          xmp_data \in CallerArgs :
        /\ xmp_data.how = "positional" => exif_data.how = "positional"
        /\ \E passed \in {[a \in ArgsToCache |->
                               IF a = "exif_data" THEN exif_data
                               ELSE xmp_data]} :
              dec' = CacheInner(dec, using_value, passed)
    /\ UNCHANGED <<loc, ter, ses, par, rot, thr>>

\* wrapper_get_if_needed("exif_data"): the getter runs when the value found
\* is None
GetExifIfNeeded(img, o, w, exif_data) ==
    ExifData(img, o, [w EXCEPT !._exif_data = GetFromArgsOrKwargs(exif_data)])

\* wrapper_get_if_needed("xmp_data")
GetXmpIfNeeded(img, o, w, xmp_data) ==
    XmpData(img, o, [w EXCEPT !._xmp_data = GetFromArgsOrKwargs(xmp_data)])

\* the callee has returned: its arguments were its own
Returned(w, out) ==
    [out EXCEPT !.w._exif_data = w._exif_data, !.w._xmp_data = w._xmp_data]

\* imgparse.get_altitude_msl(image_path, exif_data=None)
FnGetAltitudeMsl(img, o, w, exif_data) ==
    Bind(GetExifIfNeeded(img, o, w, exif_data), LAMBDA e :
        IF Raised(e) THEN Returned(w, e)
        ELSE Returned(w, GetAltitudeMsl(img, o, e.w)))

\* the Sentera branch of imgparse.get_relative_altitude:
\* abs_alt = get_altitude_msl(image_path), then parse_session_alt(image_path)
FnSessionFallback(img, o, w) ==
    Bind(FnGetAltitudeMsl(img, o, w, NotPassed), LAMBDA abs_alt :
        IF Raised(abs_alt) THEN abs_alt
        ELSE Bind(ParseSessionAlt(FALSE, img.session_is_file, img.session_text),
                  LAMBDA session_alt :
            IF session_alt.kind = "raise" THEN Out(abs_alt.w, session_alt)
            ELSE Out(abs_alt.w, Ok(abs_alt.r.val - session_alt.val))))

\* return float(xmp_data[xmp_tags.RELATIVE_ALT]) + terrain_alt, with its
\* except KeyError
FnDefaultPlus(img, o, attempt, terrain_alt) ==
    Bind(XmpFloat(img, o, attempt.w, "RELATIVE_ALT"), LAMBDA x :
        IF ~Raised(x)
        THEN Lookups(Out(x.w, Ok(x.r.val + terrain_alt)),
                     attempt.home, attempt.image)
        ELSE IF x.r.exc # "KeyError"
        THEN Lookups(x, attempt.home, attempt.image)
        ELSE Bind(GetMakeAndModel(img, o, x.w), LAMBDA mm :
            IF ~Raised(mm) /\ mm.r.val[1] = "Sentera"
            THEN Lookups(FnSessionFallback(img, o, x.w),
                         attempt.home, attempt.image)
            ELSE Lookups(Out(x.w, Raise("ParsingError")),
                         attempt.home, attempt.image)))

\* the body of imgparse.get_relative_altitude: the data is handed on to
\* get_make_and_model, get_home_point and get_lat_lon
FnRelativeAltitudeBody(img, o, w, alt_source, terrain_api_key, fallback) ==
    Bind(GetMakeAndModel(img, o, w), LAMBDA mm :
        IF Raised(mm) THEN Lookups(mm, NoCall, NoCall)
        ELSE Bind(Attempt(img, o, w, alt_source, terrain_api_key),
                  LAMBDA attempt :
            IF Raised(attempt)
            THEN IF attempt.r.exc \in Handled /\ fallback
                 THEN FnDefaultPlus(img, o, attempt, 0)
                 ELSE attempt
            ELSE IF alt_source = "lrf" THEN attempt
            ELSE FnDefaultPlus(img, o, attempt, attempt.r.val)))

\* func_arg_list = inspect.getfullargspec(func).args or func.func_arg_list
\* of the outer of two stacked wrappers: getfullargspec gives no names for
\* the inner wrapper(*args, **kwargs), and the attribute is there only if
\* the decorators module sets it on its wrappers (the module listed does so
\* for cache_inner alone; the one imgparse.py imports memoize from is not
\* listed)
ArgListOfStacked(carries) ==
    IF carries THEN Ok(<<"image_path", "exif_data", "xmp_data">>)
    ELSE Raise("AttributeError")

\* imgparse.get_relative_altitude under its two get_if_needed decorators
FnGetRelativeAltitude(img, o, w, exif_data, xmp_data, alt_source, terrain_api_key, fallback, carries) ==
    IF ArgListOfStacked(carries).kind = "raise"
    THEN Lookups(Out(w, ArgListOfStacked(carries)), NoCall, NoCall)
    ELSE Bind(GetExifIfNeeded(img, o, w, exif_data), LAMBDA e :
        IF Raised(e) THEN Lookups(Returned(w, e), NoCall, NoCall)
        ELSE Bind(GetXmpIfNeeded(img, o, e.w, xmp_data), LAMBDA x :
            IF Raised(x) THEN Lookups(Returned(w, x), NoCall, NoCall)
            ELSE Bind(FnRelativeAltitudeBody(img, o, x.w, alt_source,
                                             terrain_api_key, fallback),
                      LAMBDA out :
                [out EXCEPT !.w._exif_data = w._exif_data,
                            !.w._xmp_data = w._xmp_data])))

\* imgparse.get_home_point under its two get_if_needed decorators
FnGetHomePoint(img, o, w, exif_data, xmp_data, carries) ==
    IF ArgListOfStacked(carries).kind = "raise"
    THEN Out(w, ArgListOfStacked(carries))
    ELSE Bind(GetExifIfNeeded(img, o, w, exif_data), LAMBDA e :
        IF Raised(e) THEN Returned(w, e)
        ELSE Bind(GetXmpIfNeeded(img, o, e.w, xmp_data), LAMBDA x :
            IF Raised(x) THEN Returned(w, x)
            ELSE Returned(w, GetHomePoint(img, o, x.w))))

\* pixel_pitches.py, in units of 1e-11 m
PIXEL_PITCHES ==
    [DJI |-> [FC6310 |-> 241000, FC6310S |-> 241000, FC220 |-> 155000,
              FC6520 |-> 340000, FC330 |-> 157937, FC300X |-> 157937,
              FC300S |-> 157937, FC6510 |-> 242000, FC350 |-> 157937,
              FC350Z |-> 152958, FC550 |-> 328000, ZenmuseP1 |-> 427000,
              FC3170 |-> 80000, M3E |-> 328000, FC6360 |-> 300000,
              FC6310R |-> 241000],
     Hasselblad |-> ("L1D-20c" :> 240000) @@ ("L2D-20c" :> 328000),
     SONY |-> ("DSC-RX1RM2" :> 450000) @@ ("DSC-RX100M2" :> 241000)
                @@ ("ILCE-7RM4A" :> 376000)]

\* one centimetre in units of 1e-11 m
PitchUnitsPerCm == 1000000000

\* get_pixel_pitch_meters(), in units of 1e-11 m; the resolution is in
\* pixels per centimetre
GetPixelPitchMeters(img, o, w) ==
    Bind(GetMakeAndModel(img, o, w), LAMBDA mm :
        IF Raised(mm) THEN mm
        ELSE IF mm.r.val[1] = "Sentera"
        THEN IF "EXIF FocalPlaneXResolution" \in DOMAIN mm.w._exif_data.data
             THEN Out(mm.w, Ok(PitchUnitsPerCm \div ConvertToFloat(
                    mm.w._exif_data.data["EXIF FocalPlaneXResolution"], 0)))
             ELSE Out(mm.w, Raise("ParsingError"))
        ELSE IF mm.r.val[1] \in DOMAIN PIXEL_PITCHES
                /\ mm.r.val[2] \in DOMAIN PIXEL_PITCHES[mm.r.val[1]]
        THEN Out(mm.w, Ok(PIXEL_PITCHES[mm.r.val[1]][mm.r.val[2]]))
        ELSE Out(mm.w, Raise("ParsingError")))

\* millimetres / 1000, kept whole by counting in micrometres
MmToMetres(mm) == mm * 1000

\* the EXIF branch of get_focal_length_meters
ExifFocalLength(img, o, w) ==
    Bind(ExifData(img, o, w), LAMBDA e :
        IF Raised(e) THEN e
        ELSE IF "EXIF FocalLength" \in DOMAIN e.r.val
        THEN Out(e.w, Ok(MmToMetres(ConvertToFloat(e.r.val["EXIF FocalLength"], 0))))
        ELSE Out(e.w, Raise("ParsingError")))

\* the XMP branch of get_focal_length_meters, falling through to EXIF when
\* the tag is missing
CalibratedFocalLength(img, o, w) ==
    Bind(XmpFloat(img, o, w, "FOCAL_LEN"), LAMBDA x :
        IF ~Raised(x) THEN Out(x.w, Ok(MmToMetres(x.r.val)))
        ELSE IF x.r.exc # "KeyError" THEN x
        ELSE ExifFocalLength(img, o, x.w))

\* a slip that tries the calibrated XMP tag whatever the flag says
GetFocalLengthMetersAlwaysXmp(img, o, w, use_calibrated) ==
    CalibratedFocalLength(img, o, w)

\* get_focal_length_meters(use_calibrated), in micrometres
GetFocalLengthMeters(img, o, w, use_calibrated) ==
    IF use_calibrated
    THEN CalibratedFocalLength(img, o, w)
    ELSE ExifFocalLength(img, o, w)

\* a / b of two whole numbers, rounded towards zero
Quot(a, b) ==
    IF (a < 0) = (b < 0)
    THEN (IF a < 0 THEN 0 - a ELSE a) \div (IF b < 0 THEN 0 - b ELSE b)
    ELSE 0 - ((IF a < 0 THEN 0 - a ELSE a) \div (IF b < 0 THEN 0 - b ELSE b))

\* one micrometre in units of 1e-11 m
PitchUnitsPerUm == 100000

\* get_focal_length_pixels(use_calibrated_focal_length): fl / pp
GetFocalLengthPixels(img, o, w, use_calibrated) ==
    Bind(GetFocalLengthMeters(img, o, w, use_calibrated), LAMBDA fl :
        IF Raised(fl) THEN fl
        ELSE Bind(GetPixelPitchMeters(img, o, fl.w), LAMBDA pp :
            IF Raised(pp) THEN pp
            ELSE IF pp.r.val = 0 THEN Out(pp.w, Raise("ZeroDivisionError"))
            ELSE Out(pp.w, Ok(Quot(fl.r.val * PitchUnitsPerUm, pp.r.val)))))

\* one metre in micrometres
UmPerMetre == 1000000

\* get_gsd(use_calibrated_focal_length, alt_source, terrain_api_key,
\* fallback), in micrometres per pixel
GetGsd(img, o, w, use_calibrated, alt_source, terrain_api_key, fallback) ==
    Bind(GetFocalLengthPixels(img, o, w, use_calibrated), LAMBDA focal_length :
        IF Raised(focal_length) THEN focal_length
        ELSE Bind(GetRelativeAltitude(img, o, focal_length.w, alt_source,
                                      terrain_api_key, fallback), LAMBDA alt :
            IF Raised(alt) THEN Out(alt.w, alt.r)
            ELSE IF alt.r.val <= 0 THEN Out(alt.w, Raise("ValueError"))
            ELSE IF focal_length.r.val = 0
            THEN Out(alt.w, Raise("ZeroDivisionError"))
            ELSE Out(alt.w, Ok(Quot(alt.r.val * UmPerMetre,
                                    focal_length.r.val)))))

\* get_autoexposure(): iso * integration time
GetAutoexposure(img, o, w) ==
    Bind(ExifData(img, o, w), LAMBDA e :
        IF Raised(e) THEN e
        ELSE IF {"EXIF ISOSpeedRatings", "EXIF ExposureTime"} \subseteq DOMAIN e.r.val
        THEN Out(e.w, Ok(e.r.val["EXIF ISOSpeedRatings"][1]
                           * ConvertToFloat(e.r.val["EXIF ExposureTime"], 0)))
        ELSE Out(e.w, Raise("ParsingError")))

AllDigits(s, from, n) ==
    /\ n >= 1
    /\ from + n - 1 <= Len(s)
    /\ \A i \in from..(from + n - 1) : s[i] \in DOMAIN DigitValue

\* re.search("[0-9]+.[0-9]+.[0-9]+", s): the matches as <<start, a, b, c>>
\* (the lengths of the three digit runs); "." stands for any character
VersionMatches(s) ==
    {m \in (1..Len(s)) \X (1..Len(s)) \X (1..Len(s)) \X (1..Len(s)) :
        /\ m[1] + m[2] + m[3] + m[4] + 1 <= Len(s)
        /\ AllDigits(s, m[1], m[2])
        /\ s[m[1] + m[2]] # "\n"
        /\ AllDigits(s, m[1] + m[2] + 1, m[3])
        /\ s[m[1] + m[2] + m[3] + 1] # "\n"
        /\ AllDigits(s, m[1] + m[2] + m[3] + 2, m[4])}

\* the match re.search reports: leftmost, each run as long as it can be
Preferred(m, n) ==
    \/ m[1] < n[1]
    \/ m[1] = n[1] /\ m[2] > n[2]
    \/ m[1] = n[1] /\ m[2] = n[2] /\ m[3] > n[3]
    \/ m[1] = n[1] /\ m[2] = n[2] /\ m[3] = n[3] /\ m[4] >= n[4]

\* the three numbers of a MAJOR.MINOR.PATCH text, ValueError when split(".")
\* gives another count of fields
VersionOf(text) ==
    Bind(Split(text, "."), LAMBDA parts :
        IF Len(parts) # 3 THEN Raise("ValueError")
        ELSE Ok(<<DigitsValue(parts[1]), DigitsValue(parts[2]),
                  DigitsValue(parts[3])>>))

\* the text re.search reports for s, KeyError when nothing matches
VersionMatch(s) ==
    Bind(VersionMatches(s), LAMBDA ms :
        IF ms = {} THEN Raise("KeyError")
        ELSE Bind(CHOOSE x \in ms : \A y \in ms : Preferred(x, y), LAMBDA m :
            Ok(SubSeq(s, m[1], m[1] + m[2] + m[3] + m[4] + 1))))

\* get_firmware_version()
GetFirmwareVersion(img, o, w) ==
    Bind(ExifData(img, o, w), LAMBDA e :
        IF Raised(e) THEN e
        ELSE IF "Image Software" \notin DOMAIN e.r.val
        THEN Out(e.w, Raise("ParsingError"))
        ELSE Bind(VersionMatch(e.r.val["Image Software"]), LAMBDA found :
            IF found.kind = "raise" THEN Out(e.w, Raise("ParsingError"))
            ELSE Bind(VersionOf(found.val), LAMBDA version :
                IF version.kind = "raise" THEN Out(e.w, Raise("ParsingError"))
                ELSE Out(e.w, version))))

----------------------------------------------------------------------------
(* rotations.py: Euler angles and quaternions.                              *)
(*                                                                          *)
(* Degrees are counted in hundredths of a degree and radians in units of    *)
(* pi/36000. The angles tried are those whose half-angle cosine and sine    *)
(* are exact: n/d or n/d * sqrt(2)/2 for whole n and d; an angle is named   *)
(* by its value rounded to a hundredth of a degree (7374 is 2 atan(3/4)).   *)
(* A quaternion is four whole numbers q0..q3 over a common divisor d, all   *)
(* times sqrt(2)/2 when root is 1. cos, sin, atan2 and asin are tables of   *)
(* the values of these angles; an argument outside the tables stops the     *)
(* evaluation.                                                              *)

Euler(r, p, y) == [r |-> r, p |-> p, y |-> y]

Quaternion(q0, q1, q2, q3, d, root) ==
    [q0 |-> q0, q1 |-> q1, q2 |-> q2, q3 |-> q3, d |-> d, root |-> root]

\* math.pi
Pi == 36000

RECURSIVE Gcd(_, _)
Gcd(a, b) == IF b = 0 THEN a ELSE Gcd(b, a % b)

\* cos(x) and sin(x) for x >= 0: c/d and s/d, times sqrt(2)/2 when root is 1
CosSinTable ==
    (0 :> [c |-> 1, s |-> 0, d |-> 1, root |-> 0])
    @@ (1626 :> [c |-> 7, s |-> 1, d |-> 5, root |-> 1])
    @@ (7374 :> [c |-> 4, s |-> 3, d |-> 5, root |-> 0])
    @@ (9000 :> [c |-> 1, s |-> 1, d |-> 1, root |-> 1])
    @@ (10626 :> [c |-> 3, s |-> 4, d |-> 5, root |-> 0])
    @@ (16374 :> [c |-> 1, s |-> 7, d |-> 5, root |-> 1])
    @@ (17800 :> [c |-> 115, s |-> 6565, d |-> 6566, root |-> 0])
    @@ (18000 :> [c |-> 0, s |-> 1, d |-> 1, root |-> 0])
    @@ (25374 :> [c |-> 0 - 3, s |-> 4, d |-> 5, root |-> 0])
    @@ (27000 :> [c |-> 0 - 1, s |-> 1, d |-> 1, root |-> 1])

\* math.cos and math.sin: cos is even, sin is odd
CosSin(x) ==
    IF x >= 0 THEN CosSinTable[x]
    ELSE [CosSinTable[0 - x] EXCEPT !.s = 0 - @]

\* atan(y / x) for y > 0 and x > 0 in lowest terms
AtanTable ==
    (<<1, 1>> :> 9000) @@ (<<3, 4>> :> 7374) @@ (<<4, 3>> :> 10626)
    @@ (<<7, 24>> :> 3252) @@ (<<24, 7>> :> 14748)
    @@ (<<1, 7>> :> 1626) @@ (<<7, 1>> :> 16374)

\* the sign rounding gives a zero: +1 or -1
Cuts == {1, 0 - 1}

\* math.atan2(y, x). On the branch cut (y zero, x negative) the result is pi
\* or -pi with the sign of y, a zero that carries the sign of the rounding
\* errors before it: cut is that sign
Atan2(y, x, cut) ==
    IF y = 0 THEN (IF x >= 0 THEN 0 ELSE cut * Pi)
    ELSE IF x = 0 THEN (IF y > 0 THEN Pi \div 2 ELSE 0 - (Pi \div 2))
    ELSE LET ay == IF y < 0 THEN 0 - y ELSE y
             ax == IF x < 0 THEN 0 - x ELSE x
             g == Gcd(ay, ax)
             a == AtanTable[<<ay \div g, ax \div g>>]
             upper == IF x > 0 THEN a ELSE Pi - a
         IN  IF y > 0 THEN upper ELSE 0 - upper

\* asin(n / d) for 0 < n <= d in lowest terms
AsinTable ==
    (<<7, 25>> :> 3252) @@ (<<3, 5>> :> 7374) @@ (<<4, 5>> :> 10626)
    @@ (<<24, 25>> :> 14748) @@ (<<4999, 5000>> :> 17770)
    @@ (<<9999, 10000>> :> 17838) @@ (<<1, 1>> :> 18000)

\* math.asin(n / d)
Asin(n, d) ==
    IF n = 0 THEN 0
    ELSE LET an == IF n < 0 THEN 0 - n ELSE n
             g == Gcd(an, d)
             a == AsinTable[<<an \div g, d \div g>>]
         IN  IF n > 0 THEN a ELSE 0 - a

\* (x * pi) / 360.0 for x in hundredths of a degree
HalfAngle(x) == Quot(x * Pi, 36000)

\* a slip that leaves the angle in radians
NoConversion(x) == x

\* x * 180.0 / pi, in hundredths of a degree
ToDegrees(x) == Quot(x * 18000, Pi)

\* euler_to_quaternion(e)
EulerToQuaternion(e) ==
    LET y == CosSin(HalfAngle(e.y))
        p == CosSin(HalfAngle(e.p))
        r == CosSin(HalfAngle(e.r))
        roots == y.root + p.root + r.root
    IN  Quaternion(r.c * p.c * y.c + r.s * p.s * y.s,
                   r.s * p.c * y.c - r.c * p.s * y.s,
                   r.c * p.s * y.c + r.s * p.c * y.s,
                   r.c * p.c * y.s - r.s * p.s * y.c,
                   r.d * p.d * y.d * (IF roots >= 2 THEN 2 ELSE 1),
                   roots % 2)

\* the number 1 counted in the unit of a product of two components of q
One(q) == q.d * q.d * (IF q.root = 1 THEN 2 ELSE 1)

\* a slip that takes the special case at a pitch sine of 1 or more only
QuaternionToEulerLockAtOne(q, cut) ==
    LET sin_p == 2 * (q.q0 * q.q2 - q.q3 * q.q1)
    IN  IF sin_p >= One(q)
        THEN Euler(ToDegrees(0), ToDegrees(Pi \div 2),
                   ToDegrees((0 - 2) * Atan2(q.q1, q.q0, cut)))
        ELSE IF sin_p <= 0 - One(q)
        THEN Euler(ToDegrees(0), ToDegrees(0 - (Pi \div 2)),
                   ToDegrees(2 * Atan2(q.q1, q.q0, cut)))
        ELSE Euler(ToDegrees(Atan2(2 * (q.q0 * q.q1 + q.q2 * q.q3),
                                   One(q) - 2 * (q.q1 * q.q1 + q.q2 * q.q2),
                                   cut)),
                   ToDegrees(Asin(sin_p, One(q))),
                   ToDegrees(Atan2(2 * (q.q0 * q.q3 + q.q1 * q.q2),
                                   One(q) - 2 * (q.q2 * q.q2 + q.q3 * q.q3),
                                   cut)))

\* quaternion_to_euler(q)
QuaternionToEuler(q, cut) ==
    LET sin_p == 2 * (q.q0 * q.q2 - q.q3 * q.q1)
        epsilon_deg == 1
        pitch_thresh_rad == Quot((90 - epsilon_deg) * Pi, 180)
        hi == CosSin(pitch_thresh_rad)
        lo == CosSin(0 - pitch_thresh_rad)
    IN  IF sin_p * hi.d >= hi.s * One(q)
        THEN Euler(ToDegrees(0), ToDegrees(Pi \div 2),
                   ToDegrees((0 - 2) * Atan2(q.q1, q.q0, cut)))
        ELSE IF sin_p * lo.d <= lo.s * One(q)
        THEN Euler(ToDegrees(0), ToDegrees(0 - (Pi \div 2)),
                   ToDegrees(2 * Atan2(q.q1, q.q0, cut)))
        ELSE Euler(ToDegrees(Atan2(2 * (q.q0 * q.q1 + q.q2 * q.q3),
                                   One(q) - 2 * (q.q1 * q.q1 + q.q2 * q.q2),
                                   cut)),
                   ToDegrees(Asin(sin_p, One(q))),
                   ToDegrees(Atan2(2 * (q.q0 * q.q3 + q.q1 * q.q2),
                                   One(q) - 2 * (q.q2 * q.q2 + q.q3 * q.q3),
                                   cut)))

\* multiply_quaternions(q_a, q_b)
MultiplyQuaternions(q_a, q_b) ==
    Quaternion(
        q_a.q0 * q_b.q0 - q_a.q1 * q_b.q1 - q_a.q2 * q_b.q2 - q_a.q3 * q_b.q3,
        q_a.q0 * q_b.q1 + q_a.q1 * q_b.q0 + q_a.q2 * q_b.q3 - q_a.q3 * q_b.q2,
        q_a.q0 * q_b.q2 + q_a.q2 * q_b.q0 + q_a.q3 * q_b.q1 - q_a.q1 * q_b.q3,
        q_a.q0 * q_b.q3 + q_a.q3 * q_b.q0 + q_a.q1 * q_b.q2 - q_a.q2 * q_b.q1,
        q_a.d * q_b.d * (IF q_a.root + q_b.root = 2 THEN 2 ELSE 1),
        (q_a.root + q_b.root) % 2)

\* apply_rotational_offset(attitude_e, offset_e)
ApplyRotationalOffset(attitude_e, offset_e, cut) ==
    QuaternionToEuler(MultiplyQuaternions(EulerToQuaternion(attitude_e),
                                          EulerToQuaternion(offset_e)), cut)

\* Euler(float(roll), float(pitch), float(yaw)) of the three XMP tags, in
\* hundredths of a degree
RawRotation(img, o, w) ==
    Bind(XmpFloat(img, o, w, "ROLL"), LAMBDA roll :
        IF Raised(roll) THEN roll
        ELSE Bind(XmpFloat(img, o, roll.w, "PITCH"), LAMBDA pitch :
            IF Raised(pitch) THEN pitch
            ELSE Bind(XmpFloat(img, o, pitch.w, "YAW"), LAMBDA yaw :
                IF Raised(yaw) THEN yaw
                ELSE Out(yaw.w, Ok(Euler(100 * roll.r.val, 100 * pitch.r.val,
                                         100 * yaw.r.val))))))

\* a slip that standardizes the rotation of make DJI alone
GetRollPitchYawDjiOnly(img, o, w, standardize, cut) ==
    Bind(RawRotation(img, o, w), LAMBDA rotation :
        IF Raised(rotation) \/ ~standardize
        THEN KeyErrorAsParsingError(rotation)
        ELSE Bind(GetMakeAndModel(img, o, rotation.w), LAMBDA mm :
            IF Raised(mm) THEN mm
            ELSE IF mm.r.val[1] = "DJI"
            THEN Out(mm.w, Ok(ApplyRotationalOffset(rotation.r.val,
                                                    Euler(0, 9000, 0), cut)))
            ELSE Out(mm.w, rotation.r)))

\* get_roll_pitch_yaw(standardize); cut is the sign atan2 meets on its
\* branch cut
GetRollPitchYaw(img, o, w, standardize, cut) ==
    Bind(RawRotation(img, o, w), LAMBDA rotation :
        IF Raised(rotation) \/ ~standardize
        THEN KeyErrorAsParsingError(rotation)
        ELSE Bind(GetMakeAndModel(img, o, rotation.w), LAMBDA mm :
            IF Raised(mm) THEN mm
            ELSE IF mm.r.val[1] = "DJI" \/ mm.r.val[1] = "Hasselblad"
            THEN Out(mm.w, Ok(ApplyRotationalOffset(rotation.r.val,
                                                    Euler(0, 9000, 0), cut)))
            ELSE Out(mm.w, rotation.r)))

\* the Euler angles tried: in and beyond (-180, 180] degrees
Angles ==
    {0, 1626, 7374, 9000, 10626, 16374, 18000, 25374, 27000,
     0 - 1626, 0 - 7374, 0 - 9000, 0 - 10626, 0 - 16374}

\* the rotations tried; at a pitch of +-90 degrees the yaw of the result is
\* in the tables when the roll or the yaw is 0
Eulers ==
    {e \in [r : Angles, p : Angles, y : Angles] :
        e.p \in {9000, 0 - 9000, 27000} => e.r = 0 \/ e.y = 0}

\* quaternions not of unit length and not made from Euler angles, with a
\* pitch sine of +-2, +-1, +-0.9999 and +-0.9998
Quaternions ==
    {Quaternion(1, 0, sign, 0, 1, 0) : sign \in {1, 0 - 1}}
    \cup {Quaternion(3, 4, sign * 3, 0 - (sign * 4), 5, 0) : sign \in {1, 0 - 1}}
    \cup {Quaternion(50, 0, sign, 0, 10, 0) : sign \in {1, 0 - 1}}
    \cup {Quaternion(101, 0, sign * 99, 0, 100, 1) : sign \in {1, 0 - 1}}
    \cup {Quaternion(4999, 0, sign, 0, 100, 0) : sign \in {1, 0 - 1}}

RotIdle == [op |-> "", e |-> Euler(0, 0, 0), q |-> Quaternion(1, 0, 0, 0, 1, 0),
            out |-> Euler(0, 0, 0), of_e |-> FALSE]

\* the arguments of the calls to come: Euler angles for euler_to_quaternion
\* and then quaternion_to_euler, or a quaternion for quaternion_to_euler
RotStart ==
    {[RotIdle EXCEPT !.e = e, !.of_e = TRUE] : e \in Eulers}
    \cup {[RotIdle EXCEPT !.q = q] : q \in Quaternions}

\* a call of euler_to_quaternion
CallEulerToQuaternion ==
    /\ rot.op = "" /\ rot.of_e
    /\ rot' = [rot EXCEPT !.op = "euler_to_quaternion",
                          !.q = EulerToQuaternion(rot.e)]
    /\ UNCHANGED <<loc, ter, ses, par, dec, thr>>

\* a call of quaternion_to_euler, on the quaternion just made from Euler
\* angles or on the one given
CallQuaternionToEuler ==
    /\ \/ rot.op = "euler_to_quaternion"
       \/ rot.op = "" /\ ~rot.of_e
    /\ \E cut \in Cuts :
          rot' = [rot EXCEPT !.op = "quaternion_to_euler",
                             !.out = QuaternionToEuler(rot.q, cut)]
    /\ UNCHANGED <<loc, ter, ses, par, dec, thr>>

----------------------------------------------------------------------------
(* The images the instance is opened on.                                    *)

Makes == {"Sentera", "DJI", "Hasselblad", "MicaSense", "Parrot", "Blah"}

ModelOf(make) ==
    CASE make = "DJI" -> "FC6310"
      [] make = "Hasselblad" -> "L1D-20c"
      [] OTHER -> "Blah"

Ratio(n) == <<n, 1>>

\* GPS tags of an image taken at the home point or one degree north of it
GpsTags(gps) ==
    IF gps = "none" THEN <<>>
    ELSE ("GPS GPSLatitude" :>
            <<Ratio(IF gps = "home" THEN 44 ELSE 45), Ratio(0), Ratio(0)>>)
         @@ ("GPS GPSLatitudeRef" :> "N")
         @@ ("GPS GPSLongitude" :> <<Ratio(12), Ratio(0), Ratio(0)>>)
         @@ ("GPS GPSLongitudeRef" :> "E")

IntrinsicsTags ==
    ("EXIF FocalLength" :> <<Ratio(8)>>)
    @@ ("EXIF FocalPlaneXResolution" :> <<Ratio(2900)>>)
    @@ ("EXIF ISOSpeedRatings" :> <<100>>)
    @@ ("EXIF ExposureTime" :> <<Ratio(2)>>)
    @@ ("Image Software" :> <<"v", "1", ".", "2", ".", "4">>)

\* the EXIF map of an image: make None stands for an image without the
\* make and model tags
ExifOf(make, gps, has_alt, has_intrinsics) ==
    (IF make = None THEN ("BadKey1" :> "BadValue1")
     ELSE ("Image Make" :> make) @@ ("Image Model" :> ModelOf(make)))
    @@ GpsTags(gps)
    @@ (IF has_alt THEN ("GPS GPSAltitude" :> <<Ratio(60)>>) ELSE <<>>)
    @@ (IF has_intrinsics THEN IntrinsicsTags ELSE <<>>)

AltitudeTagNames ==
    {"Camera:AboveGroundAltitude", "drone-dji:RelativeAltitude",
     "Sentera:AltimeterCalculatedAGL", "Sentera:AltimeterCalcuatedAGL",
     "SENTERA:HomePointLatitude", "SENTERA:HomePointLongitude",
     "drone-dji:SelfData"}

FocalTagNames ==
    {"Camera:PerspectiveFocalLength", "drone-dji:CalibratedFocalLength"}

\* the text a well-formed tag carries
TagText(name) ==
    CASE name = "Camera:AboveGroundAltitude" -> <<"5", "1">>
      [] name = "drone-dji:RelativeAltitude" -> <<"1", "5">>
      [] name = "Sentera:AltimeterCalculatedAGL" -> <<"5", "2">>
      [] name = "Sentera:AltimeterCalcuatedAGL" -> <<"4", "2">>
      [] name = "SENTERA:HomePointLatitude" -> <<"4", "4">>
      [] name = "SENTERA:HomePointLongitude" -> <<"1", "2">>
      [] name = "drone-dji:SelfData" ->
            <<"4", "4", "|", "1", "2", "|", "0", "|", "0">>
      [] name = "Camera:PerspectiveFocalLength" -> <<"2", "5">>
      [] name = "drone-dji:CalibratedFocalLength" -> <<"1", "0">>

\* the XMP map with the tags of present; the tag bad (if any) carries text
\* that is no number
XmpOf(present, bad) ==
    [name \in present |-> IF name = bad THEN <<"k">> ELSE TagText(name)]

SmallSubsets(S, n) == {T \in SUBSET S : Cardinality(T) <= n}

NoSessionFile == [is_s3 |-> FALSE, is_file |-> FALSE, text |-> <<>>]

\* what lies beside the image: an S3 image, no session.txt, one with an
\* altitude, one with an empty value
SessionFiles ==
    {[is_s3 |-> TRUE, is_file |-> FALSE, text |-> <<>>],
     NoSessionFile,
     [is_s3 |-> FALSE, is_file |-> TRUE, text |-> <<"k", "=", "4", "\n">>],
     [is_s3 |-> FALSE, is_file |-> TRUE, text |-> <<"k", "=", "\n">>]}

Image(exif, xmp, session, flaky) ==
    [exif |-> exif, xmp |-> xmp, is_s3 |-> session.is_s3,
     session_is_file |-> session.is_file, session_text |-> session.text,
     flaky |-> flaky]

\* images for the altitude sources: every vendor profile, any few of the
\* altitude tags (one of them possibly malformed); the GPS tags vary where a
\* home point tag lets the terrain source get as far as reading them;
\* session.txt and the MSL altitude vary for Sentera, the one make that
\* reads them; fetches succeed
AltitudeShots ==
    {x \in [make : {"Sentera", "DJI", "Hasselblad", "MicaSense"},
            gps : {"none", "home", "away"},
            has_alt : BOOLEAN,
            present : SmallSubsets(AltitudeTagNames, MaxXmpTags),
            bad : AltitudeTagNames \cup {""},
            session : SessionFiles] :
        /\ x.bad \in x.present \cup {""}
        /\ x.gps # "away" =>
              x.present \cap {"drone-dji:SelfData", "SENTERA:HomePointLatitude"} # {}
        /\ x.make # "Sentera" => x.has_alt /\ x.session = NoSessionFile
        /\ ~x.has_alt => x.session.is_file}

AltitudeImages ==
    {Image(ExifOf(x.make, x.gps, x.has_alt, FALSE), XmpOf(x.present, x.bad),
           x.session, FALSE) : x \in AltitudeShots}

\* every tag name some profile knows
AllTagNames ==
    UNION {{p[k] : k \in DOMAIN p} :
           p \in {XMPTags, SenteraTags, DJITags, MicaSenseTags, ParrotTags}}
        \ {""}

\* images for the tag profiles: every make, with none or one of the tags any
\* profile knows, and the EXIF intrinsics; fetches succeed
ProfileImages ==
    {Image(ExifOf(make, "away", TRUE, TRUE), [name \in present |-> <<"5">>],
           NoSessionFile, FALSE) :
        make \in Makes,
        present \in {{}} \cup {{name} : name \in AllTagNames}}

\* the XMP tag a make keeps a value under; a make without a profile is
\* given the DJI tags
TagNameOf(make, key) ==
    IF make = "Sentera" THEN SenteraTags[key] ELSE DJITags[key]

\* images for the ground sample distance: a Sentera and a DJI sensor, the
\* relative altitude above, at or below the ground, the calibrated focal
\* length absent, positive, zero or negative; fetches succeed
GsdImages ==
    {Image(ExifOf(shot.make, "away", TRUE, TRUE),
           (TagNameOf(shot.make, "RELATIVE_ALT") :> shot.alt)
             @@ (IF shot.focal = <<>> THEN <<>>
                 ELSE TagNameOf(shot.make, "FOCAL_LEN") :> shot.focal),
           NoSessionFile, FALSE) :
        shot \in [make : {"Sentera", "DJI"},
                  alt : {<<"1", "5">>, <<"0">>, <<"-", "5">>},
                  focal : {<<>>, <<"1", "0">>, <<"0">>, <<"-", "4">>}]}

\* images for the orientation: the gimbal level, pointing down or pointing
\* up, the yaw in the four directions; one of the three tags may be missing;
\* a make without a profile carries the DJI tags; fetches succeed
OrientationImages ==
    {Image(ExifOf(shot.make, "away", TRUE, FALSE),
           [name \in {TagNameOf(shot.make, key) :
                        key \in {"ROLL", "PITCH", "YAW"} \ {shot.missing}}
              |-> IF name = TagNameOf(shot.make, "PITCH") THEN shot.pitch
                  ELSE IF name = TagNameOf(shot.make, "YAW") THEN shot.yaw
                  ELSE <<"0">>],
           NoSessionFile, FALSE) :
        shot \in [make : {"Sentera", "DJI", "Hasselblad", "Blah"},
                  pitch : {<<"-", "9", "0">>, <<"0">>, <<"9", "0">>},
                  yaw : {<<"0">>, <<"9", "0">>, <<"-", "9", "0">>,
                         <<"1", "8", "0">>},
                  missing : {"", "ROLL", "PITCH", "YAW"}]}

\* images for the lazy fetches: every make, with or without the intrinsics
\* tags and the calibrated focal length, well-formed or not; fetches may fail
FetchImages ==
    {Image(ExifOf(shot.make, "away", TRUE, shot.has_intrinsics),
           XmpOf(shot.present, shot.bad), NoSessionFile, TRUE) :
        shot \in {t \in [make : Makes \cup {None}, has_intrinsics : BOOLEAN,
                         present : SUBSET FocalTagNames,
                         bad : FocalTagNames \cup {""}] :
                     t.bad \in t.present \cup {""}}}

----------------------------------------------------------------------------
(* One MetadataParser instance and the calls made on it.                    *)

NoArgs == [use_calibrated |-> FALSE, alt_source |-> "", terrain_api_key |-> None,
           fallback |-> TRUE, key |-> "", standardize |-> TRUE,
           exif_data |-> NotPassed, xmp_data |-> NotPassed]

\* __init__: both slots empty
NewParser(img) ==
    [pc |-> "ready", img |-> img, _exif_data |-> NoSlot, _xmp_data |-> NoSlot,
     n_exif |-> 0, n_xmp |-> 0, fail_exif |-> 0, fail_xmp |-> 0,
     last |-> [op |-> "", args |-> NoArgs, r |-> NoCall, home |-> NoCall,
               image |-> NoCall]]

ParIdle == NewParser(Image(<<>>, <<>>, NoSessionFile, FALSE))

\* Python's s[:n]
SliceTo(s, n) == SubSeq(s, 1, Min(n, Len(s)))

S3Scheme == <<"s", "3", ":", "/", "/">>

\* a str, a Path or an S3Path of the given text
PathLike(type, text) == [type |-> type, text |-> text]

\* S3Path.from_uri(image_path): bucket and key follow the scheme
FromUri(text) ==
    LET parts == Split(SliceFrom(text, Len(S3Scheme)), "/")
    IN  [type |-> "S3Path", text |-> text, bucket |-> parts[1],
         key |-> SliceFrom(text, Len(S3Scheme) + Len(parts[1]) + 1)]

\* __init__: self.image_path for the image_path given
ImagePath(image_path) ==
    IF image_path.type = "str"
    THEN IF SliceTo(image_path.text, 4) = S3Scheme
         THEN FromUri(image_path.text)
         ELSE [type |-> "Path", text |-> image_path.text, bucket |-> <<>>,
               key |-> <<>>]
    ELSE [type |-> image_path.type, text |-> image_path.text, bucket |-> <<>>,
          key |-> <<>>]

World ==
    [_exif_data |-> par._exif_data, _xmp_data |-> par._xmp_data,
     n_exif |-> par.n_exif, n_xmp |-> par.n_xmp,
     fail_exif |-> par.fail_exif, fail_xmp |-> par.fail_xmp,
     cache |-> ter.cache, http |-> ter.http]

NoResponse == [status |-> "ERROR", elevation |-> 0]

\* the request failed in transport, or its body was not JSON
NoBody == [status |-> "NONE", elevation |-> 0]

\* how a fetch started during the call ends; a filled slot starts none
FetchOutcomes(slot) ==
    IF par.img.flaky /\ ~slot.set /\ par.fail_exif + par.fail_xmp < MaxFailures
    THEN BOOLEAN ELSE {TRUE}

Oracles ==
    [exif_ok : FetchOutcomes(par._exif_data),
     xmp_ok : FetchOutcomes(par._xmp_data),
     home_response : {NoResponse}, image_response : {NoResponse}]

\* elevation requests the service has failed so far
ApiFailures ==
    LET RECURSIVE Sum(_)
        Sum(T) == IF T = {} THEN 0
                  ELSE LET t == CHOOSE x \in T : TRUE
                       IN  ter.http[t].sent - ter.http[t].ok + Sum(T \ {t})
    IN  Sum(Triples)

\* the answers of the elevation service for ground at elevation: the
\* elevation, or a failure; a failure in transport is the first failure of
\* the run
TerrainAnswers(elevation) ==
    {[status |-> "OK", elevation |-> elevation]}
    \cup (IF ApiFailures < MaxApiFailures THEN {NoResponse} ELSE {})
    \cup (IF ApiFailures = 0 /\ MaxApiFailures > 0 THEN {NoBody} ELSE {})

\* the home point lies on higher ground than the place of the image
TerrainOracles ==
    [exif_ok : FetchOutcomes(par._exif_data),
     xmp_ok : FetchOutcomes(par._xmp_data),
     home_response : TerrainAnswers(SetMax(Elevations)),
     image_response : TerrainAnswers(SetMin(Elevations))]

\* the call has run: the instance and the process keep what it left
Done(op, args, out, home, image) ==
    /\ par.pc = "ready"
    /\ par' = [par EXCEPT
            !._exif_data = out.w._exif_data, !._xmp_data = out.w._xmp_data,
            !.n_exif = out.w.n_exif, !.n_xmp = out.w.n_xmp,
            !.fail_exif = out.w.fail_exif, !.fail_xmp = out.w.fail_xmp,
            !.last = [op |-> op, args |-> args, r |-> out.r, home |-> home,
                      image |-> image]]
    /\ ter' = [ter EXCEPT !.cache = out.w.cache, !.http = out.w.http]
    /\ UNCHANGED <<loc, ses, rot, dec, thr>>

CallGetMakeAndModel ==
    \E o \in Oracles :
        \E out \in {GetMakeAndModel(par.img, o, World)} :
            Done("get_make_and_model", NoArgs, out, NoCall, NoCall)

CallGetLatLon ==
    \E o \in Oracles :
        \E out \in {GetLatLon(par.img, o, World)} :
            Done("get_lat_lon", NoArgs, out, NoCall, NoCall)

CallGetAltitudeMsl ==
    \E o \in Oracles :
        \E out \in {GetAltitudeMsl(par.img, o, World)} :
            Done("get_altitude_msl", NoArgs, out, NoCall, NoCall)

CallGetPixelPitchMeters ==
    \E o \in Oracles :
        \E out \in {GetPixelPitchMeters(par.img, o, World)} :
            Done("get_pixel_pitch_meters", NoArgs, out, NoCall, NoCall)

CallGetAutoexposure ==
    \E o \in Oracles :
        \E out \in {GetAutoexposure(par.img, o, World)} :
            Done("get_autoexposure", NoArgs, out, NoCall, NoCall)

CallGetFirmwareVersion ==
    \E o \in Oracles :
        \E out \in {GetFirmwareVersion(par.img, o, World)} :
            Done("get_firmware_version", NoArgs, out, NoCall, NoCall)

CallGetFocalLengthMeters ==
    \E o \in Oracles, use_calibrated \in BOOLEAN :
        \E out \in {GetFocalLengthMeters(par.img, o, World, use_calibrated)} :
            Done("get_focal_length_meters",
                 [NoArgs EXCEPT !.use_calibrated = use_calibrated],
                 out, NoCall, NoCall)

\* the expression self.xmp_data[self.xmp_tags.<key>] every XMP-keyed
\* accessor is built on
CallXmpLookup ==
    \E o \in Oracles, key \in DOMAIN XMPTags :
        \E out \in {XmpItem(par.img, o, World, key)} :
            Done("xmp_lookup", [NoArgs EXCEPT !.key = key], out, NoCall, NoCall)

CallGetGsd ==
    \E use_calibrated \in BOOLEAN, alt_source \in {"default", "lrf", "terrain"},
       fallback \in BOOLEAN :
        \E o \in IF alt_source = "terrain" THEN TerrainOracles ELSE Oracles :
            \E out \in {GetGsd(par.img, o, World, use_calibrated, alt_source,
                               "key", fallback)} :
                Done("get_gsd",
                     [NoArgs EXCEPT !.use_calibrated = use_calibrated,
                                    !.alt_source = alt_source,
                                    !.terrain_api_key = "key",
                                    !.fallback = fallback],
                     out, NoCall, NoCall)

CallGetRollPitchYaw ==
    \E o \in Oracles, standardize \in BOOLEAN, cut \in Cuts :
        \E out \in {GetRollPitchYaw(par.img, o, World, standardize, cut)} :
            Done("get_roll_pitch_yaw",
                 [NoArgs EXCEPT !.standardize = standardize],
                 out, NoCall, NoCall)

CallGetHomePoint ==
    \E o \in Oracles :
        \E out \in {GetHomePoint(par.img, o, World)} :
            Done("_get_home_point", NoArgs, out, NoCall, NoCall)

CallGetRelativeAltitude ==
    \E alt_source \in {"default", "lrf", "terrain"}, fallback \in BOOLEAN :
        \E o \in IF alt_source = "terrain" THEN TerrainOracles ELSE Oracles :
            \E out \in {GetRelativeAltitude(par.img, o, World, alt_source,
                                            "key", fallback)} :
                Done("get_relative_altitude",
                     [NoArgs EXCEPT !.alt_source = alt_source,
                                    !.terrain_api_key = "key",
                                    !.fallback = fallback],
                     out, out.home, out.image)

\* the ways a caller of the function API passes the data of the image: not
\* at all, by position or by keyword
DataArgs(data) ==
    {NotPassed, Arg("positional", Slot(data), FALSE),
     Arg("keyword", Slot(data), FALSE)}

\* the pairs Python accepts: a positional xmp_data follows a positional
\* exif_data; the XMP data may also be an empty dict
ArgPairs ==
    {pair \in DataArgs(par.img.exif)
               \X (DataArgs(par.img.xmp)
                     \cup {Arg("keyword", Slot(<<>>), TRUE)}) :
        pair[2].how = "positional" => pair[1].how = "positional"}

\* the client of the function API reads what it needs of an image and the
\* altitude above ground last
MoreToRead == par.last.op # "imgparse.get_relative_altitude"

\* a call of the function API starts from no data: the counts are those of
\* this call
Fresh ==
    [World EXCEPT !._exif_data = NoSlot, !._xmp_data = NoSlot,
                  !.n_exif = 0, !.n_xmp = 0]

CallFnGetAltitudeMsl ==
    /\ MoreToRead
    /\ \E o \in Oracles, exif_data \in DataArgs(par.img.exif) :
          \E out \in {FnGetAltitudeMsl(par.img, o, Fresh, exif_data)} :
            Done("imgparse.get_altitude_msl",
                 [NoArgs EXCEPT !.exif_data = exif_data],
                 out, NoCall, NoCall)

CallFnGetHomePoint ==
    /\ MoreToRead
    /\ \E o \in Oracles, pair \in ArgPairs, carries \in BOOLEAN :
          \E out \in {FnGetHomePoint(par.img, o, Fresh, pair[1], pair[2],
                                     carries)} :
            Done("imgparse.get_home_point",
                 [NoArgs EXCEPT !.exif_data = pair[1], !.xmp_data = pair[2]],
                 out, NoCall, NoCall)

CallFnGetRelativeAltitude ==
    /\ MoreToRead
    /\ \E alt_source \in {"default", "lrf", "terrain"}, fallback \in BOOLEAN,
          pair \in ArgPairs, carries \in BOOLEAN :
        \E o \in IF alt_source = "terrain" THEN TerrainOracles ELSE Oracles :
            \E out \in {FnGetRelativeAltitude(par.img, o, Fresh, pair[1],
                                              pair[2], alt_source, "key",
                                              fallback, carries)} :
                Done("imgparse.get_relative_altitude",
                     [NoArgs EXCEPT !.alt_source = alt_source,
                                    !.terrain_api_key = "key",
                                    !.fallback = fallback,
                                    !.exif_data = pair[1],
                                    !.xmp_data = pair[2]],
                     out, out.home, out.image)

\* the characters of the image paths: those of the scheme and one more
PathChars == {"s", "3", ":", "/", "k"}

\* what a caller hands to MetadataParser(): any short str, or a path object
ImagePaths ==
    {PathLike("str", text) : text \in TextsOf(PathChars, MaxPathLen)}
    \cup {PathLike("Path", <<"k">>), PathLike("S3Path", S3Scheme \o <<"k">>)}

\* MetadataParser(image_path): the instance is made once
Construct ==
    /\ par.last.op = ""
    /\ \E image_path \in ImagePaths :
          par' = [par EXCEPT !.last =
                    [op |-> "__init__", args |-> NoArgs,
                     r |-> Ok([given |-> image_path,
                               image_path |-> ImagePath(image_path)]),
                     home |-> NoCall, image |-> NoCall]]
    /\ UNCHANGED <<loc, ter, ses, rot, dec, thr>>

----------------------------------------------------------------------------
(* Specifications: one per component, each leaving the others idle.         *)

InitXmp ==
    /\ dec = DecIdle
    /\ thr = ThrIdle
    /\ \E s \in Streams, n \in 1..MaxChunk : loc = LocStart(s, n)
    /\ ter = TerIdle
    /\ ses = SesIdle
    /\ rot = RotIdle
    /\ par = ParIdle

NextXmp == ReadChunk \/ Exhausted

SpecXmp == InitXmp /\ [][NextXmp]_vars

\* the readers of getters.py, one of them run on a stream
NextReaders == CallReadXmpStringLocal \/ CallReadXmpStringS3

SpecReaders == InitXmp /\ [][NextReaders]_vars

\* the scan and the EXIF header read of one instance on an S3 image
NextS3 == ReadChunk \/ Exhausted \/ ReadExifHeaderFromS3

SpecS3 == InitXmp /\ [][NextS3]_vars

NextParser ==
    \/ CallGetMakeAndModel
    \/ CallGetLatLon
    \/ CallGetAltitudeMsl
    \/ CallGetPixelPitchMeters
    \/ CallGetAutoexposure
    \/ CallGetFirmwareVersion
    \/ CallGetFocalLengthMeters
    \/ CallGetRelativeAltitude

\* one instance on an image whose fetches may fail
InitFetch ==
    /\ dec = DecIdle
    /\ thr = ThrIdle
    /\ loc = LocIdle
    /\ ter = TerIdle
    /\ ses = SesIdle
    /\ rot = RotIdle
    /\ \E img \in FetchImages : par = NewParser(img)

SpecFetch == InitFetch /\ [][NextParser]_vars

\* one instance on an image carrying altitude tags
InitAltitude ==
    /\ dec = DecIdle
    /\ thr = ThrIdle
    /\ loc = LocIdle
    /\ ter = TerIdle
    /\ ses = SesIdle
    /\ rot = RotIdle
    /\ \E img \in AltitudeImages : par = NewParser(img)

\* a client that reads the altitude above ground
NextAltitude ==
    \/ CallGetMakeAndModel
    \/ CallGetRelativeAltitude
    \/ CallGetHomePoint

SpecAltitude == InitAltitude /\ [][NextAltitude]_vars

\* one instance on an image of the tag profile family
InitProfile ==
    /\ dec = DecIdle
    /\ thr = ThrIdle
    /\ loc = LocIdle
    /\ ter = TerIdle
    /\ ses = SesIdle
    /\ rot = RotIdle
    /\ \E img \in ProfileImages : par = NewParser(img)

\* the XMP lookup and accessors built on it
NextProfile ==
    \/ CallXmpLookup
    \/ CallGetFocalLengthMeters
    \/ CallGetRelativeAltitude

SpecProfile == InitProfile /\ [][NextProfile]_vars

\* one instance on an image of the ground sample distance family
InitGsd ==
    /\ dec = DecIdle
    /\ thr = ThrIdle
    /\ loc = LocIdle
    /\ ter = TerIdle
    /\ ses = SesIdle
    /\ rot = RotIdle
    /\ \E img \in GsdImages : par = NewParser(img)

NextGsd ==
    \/ CallGetGsd
    \/ CallGetFocalLengthMeters
    \/ CallGetPixelPitchMeters
    \/ CallGetRelativeAltitude

SpecGsd == InitGsd /\ [][NextGsd]_vars

\* one instance on an image of the orientation family
InitOrientation ==
    /\ dec = DecIdle
    /\ thr = ThrIdle
    /\ loc = LocIdle
    /\ ter = TerIdle
    /\ ses = SesIdle
    /\ rot = RotIdle
    /\ \E img \in OrientationImages : par = NewParser(img)

NextOrientation == CallGetRollPitchYaw \/ CallGetMakeAndModel

SpecOrientation == InitOrientation /\ [][NextOrientation]_vars

\* the images of the function API: Sentera and DJI shots taken away from
\* the home point, with well-formed tags of their own vendor
FunctionImages ==
    {Image(ExifOf(x.make, x.gps, x.has_alt, FALSE), XmpOf(x.present, x.bad),
           x.session, FALSE) :
        x \in {y \in AltitudeShots :
                  /\ y.make \in {"Sentera", "DJI"}
                  /\ y.bad = ""
                  /\ y.gps = "away"
                  /\ ~y.session.is_s3
                  /\ \A name \in y.present :
                        \E key \in {"RELATIVE_ALT", "LRF_ALT", "SELF_DATA",
                                    "HOMEPOINT_LAT", "HOMEPOINT_LON"} :
                            name = TagNameOf(y.make, key)}}

\* a client of the function API on one image
InitFunctions ==
    /\ dec = DecIdle
    /\ thr = ThrIdle
    /\ loc = LocIdle
    /\ ter = TerIdle
    /\ ses = SesIdle
    /\ rot = RotIdle
    /\ \E img \in FunctionImages : par = NewParser(img)

NextFunctions ==
    \/ CallFnGetAltitudeMsl
    \/ CallFnGetHomePoint
    \/ CallFnGetRelativeAltitude

SpecFunctions == InitFunctions /\ [][NextFunctions]_vars

\* the construction of an instance
InitConstruct ==
    /\ dec = DecIdle
    /\ thr = ThrIdle
    /\ loc = LocIdle
    /\ ter = TerIdle
    /\ ses = SesIdle
    /\ rot = RotIdle
    /\ par = ParIdle

NextConstruct == Construct

SpecConstruct == InitConstruct /\ [][NextConstruct]_vars

InitRotation ==
    /\ dec = DecIdle
    /\ thr = ThrIdle
    /\ loc = LocIdle
    /\ ter = TerIdle
    /\ ses = SesIdle
    /\ par = ParIdle
    /\ rot \in RotStart

NextRotation == CallEulerToQuaternion \/ CallQuaternionToEuler

SpecRotation == InitRotation /\ [][NextRotation]_vars

\* one instance on an image of the two vendors that record a home point,
\* asked for its altitude above ground again and again
InitLookups ==
    /\ dec = DecIdle
    /\ thr = ThrIdle
    /\ loc = LocIdle
    /\ ter = TerIdle
    /\ ses = SesIdle
    /\ rot = RotIdle
    /\ \E img \in FunctionImages : par = NewParser(img)

NextLookups == CallGetRelativeAltitude

SpecLookups == InitLookups /\ [][NextLookups]_vars

InitCache ==
    /\ dec = DecIdle
    /\ thr = ThrIdle
    /\ loc = LocIdle
    /\ ter = TerIdle
    /\ ses = SesIdle
    /\ rot = RotIdle
    /\ par = ParIdle

NextCache == CallCached

\* the threads of one process, each calling hit_terrain_api once
InitThreads ==
    /\ dec = DecIdle
    /\ thr = ThrIdle
    /\ loc = LocIdle
    /\ ter = TerIdle
    /\ ses = SesIdle
    /\ rot = RotIdle
    /\ par = ParIdle

NextThreads ==
    \E t \in Threads :
        \/ LookupInCache(t)
        \/ RequestElevation(t)
        \/ StoreInCache(t)

SpecThreads == InitThreads /\ [][NextThreads]_vars

SpecCache == InitCache /\ [][NextCache]_vars

InitTerrain ==
    /\ dec = DecIdle
    /\ thr = ThrIdle
    /\ loc = LocIdle
    /\ ter = TerIdle
    /\ ses = SesIdle
    /\ rot = RotIdle
    /\ par = ParIdle

NextTerrain == CallHitTerrainApi

SpecTerrain == InitTerrain /\ [][NextTerrain]_vars

InitSession ==
    /\ dec = DecIdle
    /\ thr = ThrIdle
    /\ loc = LocIdle
    /\ rot = RotIdle
    /\ ter = TerIdle
    /\ par = ParIdle
    /\ \E is_s3 \in BOOLEAN, is_file \in BOOLEAN, text \in SessionTexts :
         /\ ~is_file => text = <<>>
         /\ ses = [pc |-> "start", is_s3 |-> is_s3, is_file |-> is_file,
                   text |-> text, r |-> NoCall]

NextSession == CallParseSessionAlt

SpecSession == InitSession /\ [][NextSession]_vars

----------------------------------------------------------------------------
(* Claims about the locator.                                                *)

\* number of chunks of the given size needed to cover the first n characters
ChunksFor(n, size) == (n + size - 1) \div size

FirstClose == SetMin(Occurrences(XmpClose, loc.stream))

\* the iteration that appends the last character of the first close marker
ClosingIteration == ChunksFor(FirstClose + Len(XmpClose) - 1, loc.size)

OpenPrecedesFirstClose ==
    \E o \in Occurrences(XmpOpen, loc.stream) : o + Len(XmpOpen) <= FirstClose

\* the first close marker is found in the iteration that completes it
DetectedWhenCompleted ==
    /\ loc.requests < ClosingIteration => loc.first_hit = 0
    /\ loc.requests >= ClosingIteration => loc.first_hit = ClosingIteration

C4_NoMarkerRaises ==
    (loc.pc # "idle" /\ Occurrences(XmpClose, loc.stream) = {}) =>
        /\ loc.pc \in {"reading", "raised"}
        /\ loc.exc \in {"", "ParsingError"}
        /\ loc.hits = 0
        /\ loc.requests <= ChunksFor(Len(loc.stream), loc.size) + 1
        /\ loc.pc = "reading" =>
              /\ loc.exc = ""
              /\ loc.requests <= ChunksFor(Len(loc.stream), loc.size)
              /\ ENABLED NextXmp
        /\ loc.pc = "raised" =>
              /\ loc.exc = "ParsingError"
              /\ loc.result = <<>>
              /\ loc.file_so_far = loc.stream
              /\ loc.requests = ChunksFor(Len(loc.stream), loc.size) + 1

\* a stream of several chunks without a close marker, read to its end
C4_Witness ==
    /\ loc.pc = "raised"
    /\ Occurrences(XmpClose, loc.stream) = {}
    /\ Occurrences(XmpOpen, loc.stream) # {}
    /\ loc.requests > 2

----------------------------------------------------------------------------
(* Claims about the elevation cache.                                        *)

\* a triple is cached exactly when one request for it was answered OK
OneOkRequestPerTriple ==
    \A t \in Triples :
        /\ ter.http[t].ok <= 1
        /\ t \in DOMAIN ter.cache <=> ter.http[t].ok = 1

\* a call whose triple is cached returns the cached value and sends nothing
HitSendsNothing ==
    \A t \in DOMAIN ter.cache :
        (ter'.calls = ter.calls + 1 /\ ter'.last.key = t) =>
            /\ ter'.http = ter.http
            /\ ter'.cache = ter.cache
            /\ ter'.last.r = Ok(ter.cache[t])
            /\ ~ter'.last.requested

\* C5: a repeated call with a triple whose earlier lookup succeeded returns
\* the memoized elevation and issues no HTTP request, so each triple has at
\* most one request answered OK, and exactly one once it is cached.
C5_MemoizedLookup == [](OneOkRequestPerTriple) /\ [][HitSendsNothing]_vars

\* a triple looked up with success and then called again: the second call
\* is served from the cache
C5_Witness ==
    /\ ter.calls >= 2
    /\ ter.last.key \in DOMAIN ter.cache
    /\ ~ter.last.requested
    /\ ter.last.r.kind = "ok"
    /\ ter.http[ter.last.key] = [sent |-> 1, ok |-> 1]

----------------------------------------------------------------------------
(* Claims about parse_session_alt.                                          *)

\* the first line of session.txt reads key=value with a numeric value
SessionLineIsNumeric ==
    LET fields == Split(Strip(ReadLine(ses.text)), "=")
    IN  /\ Len(fields) >= 2
        /\ PyFloat(fields[2]).kind = "ok"

\* C10: parse_session_alt raises ParsingError in every failure case (file
\* missing, first line without '=', empty value, value that is no float) and
\* returns the value only for a first line key=value with a numeric value.
C10_AlwaysParsingError ==
    ses.pc = "done" =>
        /\ ses.r.kind \in {"ok", "raise"}
        /\ ses.r.kind = "raise" => ses.r.exc = "ParsingError"
        /\ ses.r.kind = "ok" =>
              ~ses.is_s3 /\ ses.is_file /\ SessionLineIsNumeric

\* what the code does keep: a returned value comes from a numeric key=value
\* line, and a missing file or an empty value raises ParsingError
C10_CodeBehaviour ==
    ses.pc = "done" =>
        /\ ses.r.kind = "ok" =>
              ~ses.is_s3 /\ ses.is_file /\ SessionLineIsNumeric
        /\ ses.r.kind = "raise" =>
              ses.r.exc \in {"ParsingError", "IndexError", "ValueError"}
        /\ (ses.is_s3 \/ ~ses.is_file) => ses.r = Raise("ParsingError")

----------------------------------------------------------------------------
(* Claims about the lazy fetches of one instance.                           *)

FetchesSucceeded == par.fail_exif = 0 /\ par.fail_xmp = 0

\* while no fetch has failed, the count of fetches is the count of filled
\* slots, a filled slot holds the image's map, and once a call has run the
\* EXIF map has been fetched
FetchedOnce ==
    FetchesSucceeded =>
        /\ par.n_exif = (IF par._exif_data.set THEN 1 ELSE 0)
        /\ par.n_xmp = (IF par._xmp_data.set THEN 1 ELSE 0)
        /\ par._exif_data.set => par._exif_data.data = par.img.exif
        /\ par._xmp_data.set => par._xmp_data.data = par.img.xmp
        /\ par.last.op # "" => par.n_exif = 1

\* a call on an instance whose slot is filled fetches nothing for that slot
NoRefetch ==
    /\ par._exif_data.set =>
          par'.n_exif = par.n_exif /\ par'._exif_data = par._exif_data
    /\ par._xmp_data.set =>
          par'.n_xmp = par.n_xmp /\ par'._xmp_data = par._xmp_data

\* C1: over any sequence of accessor calls on one instance whose fetches
\* succeed, get_exif_data runs exactly once (in the first call) and
\* get_xmp_data at most once; later calls read the memoized maps and fetch
\* nothing.
C1_FetchedOncePerInstance == [](FetchedOnce) /\ [][NoRefetch]_vars

\* both maps are memoized, each after one fetch, and a further accessor has
\* run on them
C1_Witness ==
    /\ FetchesSucceeded
    /\ par._exif_data.set /\ par._xmp_data.set
    /\ par.n_exif = 1 /\ par.n_xmp = 1
    /\ par.last.op = "get_make_and_model"
    /\ par.last.r.kind = "ok"

ExifOnlyCall(last) ==
    \/ last.op \in {"get_make_and_model", "get_lat_lon", "get_altitude_msl",
                    "get_pixel_pitch_meters", "get_autoexposure",
                    "get_firmware_version"}
    \/ last.op = "get_focal_length_meters" /\ ~last.args.use_calibrated

XmpUntouched ==
    ExifOnlyCall(par'.last) /\ ~par._xmp_data.set =>
        ~par'._xmp_data.set /\ par'.n_xmp = par.n_xmp

\* C2: an accessor that needs only EXIF tags (get_make_and_model,
\* get_lat_lon, get_altitude_msl, get_pixel_pitch_meters, get_autoexposure,
\* get_firmware_version, get_focal_length_meters without use_calibrated)
\* starts no XMP fetch: whether it returns or raises, an empty XMP slot is
\* still empty afterwards.
C2_ExifOnlyLeavesXmp == [][XmpUntouched]_vars

\* the focal length was read from EXIF on an instance that never fetched XMP
\* although the image carries a calibrated focal length
C2_Witness ==
    /\ par.last.op = "get_focal_length_meters"
    /\ ~par.last.args.use_calibrated
    /\ par.last.r.kind = "ok"
    /\ par.img.xmp # <<>>
    /\ par._exif_data.set
    /\ ~par._xmp_data.set /\ par.n_xmp = 0

----------------------------------------------------------------------------
(* Claims about get_relative_altitude.                                      *)

LastAltitude(alt_source) ==
    /\ par.last.op = "get_relative_altitude"
    /\ par.last.args.alt_source = alt_source

\* the make written in the image
MakeOf(img) == img.exif["Image Make"]

\* the XMP tag of the image that its vendor profile names key
TagOf(img, key) == TagsFor(MakeOf(img))[key]

HasTag(img, key) == TagOf(img, key) \in DOMAIN img.xmp

\* the tag is there and carries a number
HasNumber(img, key) ==
    HasTag(img, key) /\ PyFloat(img.xmp[TagOf(img, key)]).kind = "ok"

NumberOf(img, key) == PyFloat(img.xmp[TagOf(img, key)]).val

\* an environment whose fetches succeed
Reliable ==
    [exif_ok |-> TRUE, xmp_ok |-> TRUE, home_response |-> NoResponse,
     image_response |-> NoResponse]

\* what the default source gives for the image of the instance
DefaultNow == GetRelativeAltitudeDefault(par.img, Reliable, World).r

\* C6: with alt_source=terrain, when the home point is parsable and both
\* elevation lookups succeed, the result is the default relative altitude
\* plus (home elevation - image elevation), the default being what the
\* default source gives for the same image.
C6_TerrainOffsetAdded ==
    (/\ LastAltitude("terrain")
     /\ par.last.home.kind = "ok"
     /\ par.last.image.kind = "ok")
    => IF DefaultNow.kind = "ok"
       THEN par.last.r = Ok(DefaultNow.val
                            + (par.last.home.val - par.last.image.val))
       ELSE par.last.r = DefaultNow

\* a DJI image above lower ground than its home point: the tag value plus
\* the difference of the two elevations
C6_Witness ==
    /\ LastAltitude("terrain")
    /\ MakeOf(par.img) = "DJI"
    /\ HasNumber(par.img, "RELATIVE_ALT")
    /\ par.last.home.kind = "ok" /\ par.last.image.kind = "ok"
    /\ par.last.home.val > par.last.image.val
    /\ par.last.r = Ok(NumberOf(par.img, "RELATIVE_ALT")
                       + par.last.home.val - par.last.image.val)

ApiFailed ==
    \/ par.last.home = Raise("TerrainAPIError")
    \/ par.last.image = Raise("TerrainAPIError")

\* C7: when the elevation service answers with a status other than OK,
\* alt_source=terrain raises TerrainAPIError if fallback is off, and with
\* fallback on gives exactly the default relative altitude, no offset added.
C7_ApiFailureFallsBack ==
    (LastAltitude("terrain") /\ ApiFailed)
    => IF par.last.args.fallback
       THEN par.last.r = DefaultNow
       ELSE par.last.r = Raise("TerrainAPIError")

\* the home lookup succeeded and the image lookup failed: with fallback on
\* the result is the plain tag value
C7_Witness ==
    /\ LastAltitude("terrain")
    /\ par.last.args.fallback
    /\ par.last.home.kind = "ok"
    /\ par.last.home.val > 0
    /\ par.last.image = Raise("TerrainAPIError")
    /\ HasNumber(par.img, "RELATIVE_ALT")
    /\ par.last.r = Ok(NumberOf(par.img, "RELATIVE_ALT"))

\* C8: with alt_source=lrf the result is the primary LRF tag's value if the
\* XMP has it, else the legacy misspelt tag's value if the XMP has that; with
\* neither (absent, or not defined for the vendor) ParsingError if fallback
\* is off and the default relative altitude if it is on. Tags that are there
\* are taken to carry numbers.
C8_LrfChain ==
    LastAltitude("lrf") =>
        /\ HasNumber(par.img, "LRF_ALT") =>
              par.last.r = Ok(NumberOf(par.img, "LRF_ALT"))
        /\ ~HasTag(par.img, "LRF_ALT") /\ HasNumber(par.img, "LRF_ALT2") =>
              par.last.r = Ok(NumberOf(par.img, "LRF_ALT2"))
        /\ ~HasTag(par.img, "LRF_ALT") /\ ~HasTag(par.img, "LRF_ALT2") =>
              IF par.last.args.fallback
              THEN par.last.r = DefaultNow
              ELSE par.last.r = Raise("ParsingError")

\* a Sentera image with the legacy tag alone
C8_Witness ==
    /\ LastAltitude("lrf")
    /\ MakeOf(par.img) = "Sentera"
    /\ ~HasTag(par.img, "LRF_ALT")
    /\ HasNumber(par.img, "LRF_ALT2")
    /\ par.last.r = Ok(NumberOf(par.img, "LRF_ALT2"))

SessionAlt(img) ==
    ParseSessionAlt(img.is_s3, img.session_is_file, img.session_text)

\* the image has a GPS altitude and a session.txt with a ground altitude
SessionReadable(img) ==
    "GPS GPSAltitude" \in DOMAIN img.exif /\ SessionAlt(img).kind = "ok"

\* GPS MSL altitude minus the ground altitude of session.txt
SessionDerived(img) ==
    Ok(ConvertToFloat(img.exif["GPS GPSAltitude"], 0) - SessionAlt(img).val)

\* C9: for the default source, the vendor's relative-altitude tag gives the
\* result when the XMP has it (carrying a number); without it a Sentera
\* image gives GPS MSL altitude minus the session.txt ground altitude (both
\* being readable), whatever fallback is, and an image of any other make
\* raises ParsingError.
C9_DefaultSource ==
    LastAltitude("default") =>
        /\ HasNumber(par.img, "RELATIVE_ALT") =>
              par.last.r = Ok(NumberOf(par.img, "RELATIVE_ALT"))
        /\ (/\ ~HasTag(par.img, "RELATIVE_ALT")
            /\ MakeOf(par.img) = "Sentera"
            /\ SessionReadable(par.img)) =>
              par.last.r = SessionDerived(par.img)
        /\ ~HasTag(par.img, "RELATIVE_ALT") /\ MakeOf(par.img) # "Sentera" =>
              par.last.r = Raise("ParsingError")

\* a Sentera image without the tag, read with fallback off: the altitude
\* comes from session.txt
C9_Witness ==
    /\ LastAltitude("default")
    /\ ~par.last.args.fallback
    /\ MakeOf(par.img) = "Sentera"
    /\ ~HasTag(par.img, "RELATIVE_ALT")
    /\ SessionReadable(par.img)
    /\ par.last.r = SessionDerived(par.img)

----------------------------------------------------------------------------
(* Claims about the home point.                                             *)

LastRaised(exc) == par.last.r.kind = "raise" /\ par.last.r.exc = exc

\* the pipe-delimited fields of the image's SelfData tag
SelfDataFields(img) == Split(img.xmp[TagOf(img, "SELF_DATA")], "|")

\* the tag is missing, or it carries a number
MissingOrNumber(img, key) == ~HasTag(img, key) \/ HasNumber(img, key)

\* C11: the home point is returned in two cases only: make DJI with a
\* SelfData of exactly four pipe-delimited fields (the first two are lat and
\* lon), and make Sentera with both home point tags; every other make
\* (Hasselblad too, which shares the DJI profile), a missing tag and another
\* field count raise ParsingError. Tags that are there are taken to carry
\* numbers.
C11_HomePointCases ==
    par.last.op = "_get_home_point" =>
        /\ par.last.r.kind = "ok" =>
              \/ /\ MakeOf(par.img) = "DJI"
                 /\ HasTag(par.img, "SELF_DATA")
                 /\ Len(SelfDataFields(par.img)) = 4
                 /\ par.last.r.val
                      = <<PyFloat(SelfDataFields(par.img)[1]).val,
                          PyFloat(SelfDataFields(par.img)[2]).val>>
              \/ /\ MakeOf(par.img) = "Sentera"
                 /\ HasNumber(par.img, "HOMEPOINT_LAT")
                 /\ HasNumber(par.img, "HOMEPOINT_LON")
                 /\ par.last.r.val = <<NumberOf(par.img, "HOMEPOINT_LAT"),
                                       NumberOf(par.img, "HOMEPOINT_LON")>>
        /\ MakeOf(par.img) \notin {"DJI", "Sentera"} =>
              LastRaised("ParsingError")
        /\ (/\ MakeOf(par.img) = "DJI"
            /\ \/ ~HasTag(par.img, "SELF_DATA")
               \/ Len(SelfDataFields(par.img)) # 4) =>
              LastRaised("ParsingError")
        /\ (/\ MakeOf(par.img) = "Sentera"
            /\ ~HasTag(par.img, "HOMEPOINT_LAT")
                 \/ ~HasTag(par.img, "HOMEPOINT_LON")
            /\ MissingOrNumber(par.img, "HOMEPOINT_LAT")
            /\ MissingOrNumber(par.img, "HOMEPOINT_LON")) =>
              LastRaised("ParsingError")

\* a Hasselblad image with a well-formed SelfData: no home point
C11_Witness ==
    /\ par.last.op = "_get_home_point"
    /\ MakeOf(par.img) = "Hasselblad"
    /\ HasTag(par.img, "SELF_DATA")
    /\ Len(SelfDataFields(par.img)) = 4
    /\ LastRaised("ParsingError")

----------------------------------------------------------------------------
(* Claims about the tag profiles.                                           *)

\* the profile the make selects, as the claim lists it
ProfileOf(make) ==
    IF make = "Sentera" THEN SenteraTags
    ELSE IF make \in {"DJI", "Hasselblad"} THEN DJITags
    ELSE IF make = "MicaSense" THEN MicaSenseTags
    ELSE IF make = "Parrot" THEN ParrotTags
    ELSE XMPTags

\* the profile of the image's make defines key and the XMP has that tag
Available(img, key) ==
    /\ ProfileOf(MakeOf(img))[key] # ""
    /\ ProfileOf(MakeOf(img))[key] \in DOMAIN img.xmp

\* the logical keys a call of an XMP-keyed accessor reads
KeysRead(last) ==
    IF last.op = "get_focal_length_meters" /\ last.args.use_calibrated
    THEN {"FOCAL_LEN"}
    ELSE IF last.op = "get_relative_altitude"
            /\ last.args.alt_source = "default"
    THEN {"RELATIVE_ALT"}
    ELSE IF last.op = "get_relative_altitude" /\ last.args.alt_source = "lrf"
            /\ ~last.args.fallback
    THEN {"LRF_ALT", "LRF_ALT2"}
    ELSE {}

----------------------------------------------------------------------------
(* Claims about the calibrated focal length.                                *)

CalibratedCall ==
    /\ par.last.op = "get_focal_length_meters"
    /\ par.last.args.use_calibrated
    /\ "Image Make" \in DOMAIN par.img.exif
    /\ par._exif_data.set /\ par._xmp_data.set

\* what use_calibrated=False gives for the image of the instance
UncalibratedNow == ExifFocalLength(par.img, Reliable, World).r

\* C13: get_focal_length_meters(use_calibrated=True) gives the calibrated XMP
\* value when it is present and numeric; when the profile has no such tag,
\* the tag is absent or its value is no number, the call does not raise on
\* that account and gives exactly what use_calibrated=False gives.
C13_FallsBackWhenUnusable ==
    CalibratedCall =>
        IF HasNumber(par.img, "FOCAL_LEN")
        THEN par.last.r = Ok(MmToMetres(NumberOf(par.img, "FOCAL_LEN")))
        ELSE par.last.r = UncalibratedNow

\* what the code does: a tag that is there but carries no number ends the
\* call with the ValueError of float()
C13_CodeBehaviour ==
    CalibratedCall =>
        IF HasNumber(par.img, "FOCAL_LEN")
        THEN par.last.r = Ok(MmToMetres(NumberOf(par.img, "FOCAL_LEN")))
        ELSE IF HasTag(par.img, "FOCAL_LEN")
        THEN LastRaised("ValueError")
        ELSE par.last.r = UncalibratedNow

\* the calibrated tag carries no number, the EXIF focal length is there, and
\* the call raised
C13_Raised ==
    /\ CalibratedCall
    /\ HasTag(par.img, "FOCAL_LEN") /\ ~HasNumber(par.img, "FOCAL_LEN")
    /\ UncalibratedNow.kind = "ok"
    /\ par.last.r.kind = "raise"

----------------------------------------------------------------------------
(* Claims about get_gsd.                                                    *)

\* what the accessors get_gsd is built on give for the image of the
\* instance and the arguments of the last call
FocalNow == GetFocalLengthMeters(par.img, Reliable, World,
                                 par.last.args.use_calibrated).r

AltitudeNow == GetRelativeAltitude(par.img, Reliable, World,
                                   par.last.args.alt_source, "key",
                                   par.last.args.fallback).r

\* C14: get_gsd never returns a value less than or equal to 0; a
\* non-positive GSD (altitude <= 0, or a non-positive focal length with a
\* positive altitude) is reported as an error.
C14_NeverNonPositive ==
    par.last.op = "get_gsd" =>
        /\ par.last.r.kind = "ok" => par.last.r.val > 0
        /\ (/\ FocalNow.kind = "ok" /\ AltitudeNow.kind = "ok"
            /\ (AltitudeNow.val <= 0 \/ FocalNow.val <= 0)) =>
              par.last.r.kind = "raise"

\* what the code does: the altitude alone is checked; a zero focal length
\* fails in the division and a negative one gives a negative GSD
C14_CodeBehaviour ==
    (/\ par.last.op = "get_gsd"
     /\ FocalNow.kind = "ok" /\ AltitudeNow.kind = "ok") =>
        IF AltitudeNow.val <= 0 THEN LastRaised("ValueError")
        ELSE IF FocalNow.val = 0 THEN LastRaised("ZeroDivisionError")
        ELSE /\ par.last.r.kind = "ok"
             /\ (par.last.r.val > 0) = (FocalNow.val > 0)

\* get_gsd returned a negative value: the altitude is positive and the
\* calibrated focal length negative
C14_NegativeGsd ==
    /\ par.last.op = "get_gsd"
    /\ par.last.r.kind = "ok"
    /\ par.last.r.val < 0
    /\ AltitudeNow.val > 0

----------------------------------------------------------------------------
(* Claims about rotations.py.                                               *)

\* 2 (q0 q2 - q3 q1), in the unit of One(q)
PitchSine(q) == 2 * (q.q0 * q.q2 - q.q3 * q.q1)

\* x / one is at least 0.9999, which is more than sin(89 degrees)
InBand(x, one) == x >= one - (one \div 10000)

\* x / one is between -0.9998 and 0.9998, which is less than sin(89 degrees)
OutOfBand(x, one) ==
    /\ x <= one - ((2 * one + 9999) \div 10000)
    /\ 0 - x <= one - ((2 * one + 9999) \div 10000)

\* C16: quaternion_to_euler returns roll 0 and a pitch of exactly +90 or
\* -90 degrees for every quaternion whose 2 (q0 q2 - q3 q1) is at least
\* sin(89 degrees) or at most -sin(89 degrees), and the atan2 / asin
\* decomposition for every other one.
C16_GimbalBand ==
    rot.op = "quaternion_to_euler" =>
        /\ InBand(PitchSine(rot.q), One(rot.q)) =>
              rot.out.r = 0 /\ rot.out.p = 9000
        /\ InBand(0 - PitchSine(rot.q), One(rot.q)) =>
              rot.out.r = 0 /\ rot.out.p = 0 - 9000
        /\ OutOfBand(PitchSine(rot.q), One(rot.q)) =>
              /\ rot.out.p = ToDegrees(Asin(PitchSine(rot.q), One(rot.q)))
              /\ \E cut \in Cuts :
                    /\ rot.out.r = ToDegrees(Atan2(
                          2 * (rot.q.q0 * rot.q.q1 + rot.q.q2 * rot.q.q3),
                          One(rot.q)
                            - 2 * (rot.q.q1 * rot.q.q1 + rot.q.q2 * rot.q.q2),
                          cut))
                    /\ rot.out.y = ToDegrees(Atan2(
                          2 * (rot.q.q0 * rot.q.q3 + rot.q.q1 * rot.q.q2),
                          One(rot.q)
                            - 2 * (rot.q.q2 * rot.q.q2 + rot.q.q3 * rot.q.q3),
                          cut))
        /\ InBand(PitchSine(rot.q), One(rot.q))
              \/ InBand(0 - PitchSine(rot.q), One(rot.q))
              \/ OutOfBand(PitchSine(rot.q), One(rot.q))

\* a quaternion with a pitch sine of 0.9999, inside the band and short of 1,
\* was converted to roll 0 and pitch 90
C16_Witness ==
    /\ rot.op = "quaternion_to_euler"
    /\ InBand(PitchSine(rot.q), One(rot.q))
    /\ PitchSine(rot.q) < One(rot.q)
    /\ rot.out.r = 0 /\ rot.out.p = 9000

RoundTrip ==
    /\ rot.op = "quaternion_to_euler"
    /\ rot.of_e
    /\ rot.e.p > 0 - 8900 /\ rot.e.p < 8900

\* C17 as stated: quaternion_to_euler(euler_to_quaternion(e)) equals e for
\* every e with |pitch| < 89 degrees.
C17_Original == RoundTrip => rot.out = rot.e

WithinHalfTurn(x) == x > 0 - 18000 /\ x < 18000

\* C17 amended: quaternion_to_euler(euler_to_quaternion(e)) equals e for
\* every e with |pitch| < 89 degrees whose roll and yaw lie strictly
\* between -180 and 180 degrees; any other roll or yaw comes back as the
\* same angle reduced into [-180, 180] by a whole number of turns, the
\* pitch unchanged.
C17_RoundTripInRange ==
    RoundTrip =>
        /\ rot.out.p = rot.e.p
        /\ rot.out.r >= 0 - 18000 /\ rot.out.r <= 18000
        /\ (rot.out.r - rot.e.r) % 36000 = 0
        /\ rot.out.y >= 0 - 18000 /\ rot.out.y <= 18000
        /\ (rot.out.y - rot.e.y) % 36000 = 0
        /\ (WithinHalfTurn(rot.e.r) /\ WithinHalfTurn(rot.e.y)) =>
              rot.out = rot.e

\* a rotation with three different angles came back unchanged
C17_Witness ==
    /\ RoundTrip
    /\ rot.e = Euler(10626, 7374, 0 - 16374)
    /\ rot.out = rot.e

----------------------------------------------------------------------------
(* Claims about get_roll_pitch_yaw.                                         *)

RollPitchYawCall ==
    /\ par.last.op = "get_roll_pitch_yaw"
    /\ \A key \in {"ROLL", "PITCH", "YAW"} : HasNumber(par.img, key)

\* the three XMP values, in hundredths of a degree
RawNow ==
    Euler(100 * NumberOf(par.img, "ROLL"), 100 * NumberOf(par.img, "PITCH"),
          100 * NumberOf(par.img, "YAW"))

Standardized ==
    par.last.args.standardize /\ MakeOf(par.img) \in {"DJI", "Hasselblad"}

\* C15: get_roll_pitch_yaw applies the +90 degree pitch offset (quaternion
\* product with Euler(0, 90, 0), converted back to Euler angles) exactly
\* when standardize is True and the make is DJI or Hasselblad, so that a
\* gimbal pointing straight down (pitch -90) comes out with roll 0, pitch 0
\* and its yaw; in every other case it returns the three raw XMP values.
C15_OffsetForGimbalMakes ==
    RollPitchYawCall =>
        /\ par.last.r.kind = "ok"
        /\ Standardized =>
              /\ \E cut \in Cuts :
                    par.last.r.val
                      = ApplyRotationalOffset(RawNow, Euler(0, 9000, 0), cut)
              /\ par.last.r.val # RawNow
              /\ RawNow.p = 0 - 9000 =>
                    /\ par.last.r.val.r = 0 /\ par.last.r.val.p = 0
                    /\ (par.last.r.val.y - RawNow.y) % 36000 = 0
        /\ ~Standardized => par.last.r.val = RawNow

\* a Hasselblad image with the gimbal pointing down and a yaw of 90 degrees
\* was standardized to pitch 0
C15_Witness ==
    /\ RollPitchYawCall
    /\ par.last.args.standardize
    /\ MakeOf(par.img) = "Hasselblad"
    /\ RawNow = Euler(0, 0 - 9000, 9000)
    /\ par.last.r.val = Euler(0, 0, 9000)

----------------------------------------------------------------------------
(* Claims about the byte ranges requested from S3.                          *)

Overlap(a, b) == a.first <= b.last /\ b.first <= a.last

\* the requests of the XMP scan, in order
XmpRequests == SelectSeq(loc.log, LAMBDA r : r.reader = "xmp")

ExifRequests == SelectSeq(loc.log, LAMBDA r : r.reader = "exif")

\* C18 as stated: no byte offset of the S3 object is requested more than
\* once by one instance: the bytes fetched for EXIF are not requested again
\* by the XMP scan.
C18_Original ==
    \A i, j \in DOMAIN loc.log : i # j => ~Overlap(loc.log[i], loc.log[j])

\* C18 amended: the XMP scan of an S3 image requests contiguous ranges that
\* do not overlap, the k-th being bytes (k-1)*CHUNK_SIZE to k*CHUNK_SIZE - 1,
\* so that one scan requests no byte twice; the EXIF read is one more
\* request, of bytes 0-65536, whose bytes are not shared with the scan: an
\* instance that reads both requests every scanned byte up to offset 65536
\* twice.
C18_ScanRangesDisjoint ==
    /\ \A k \in DOMAIN XmpRequests :
          /\ XmpRequests[k].first = (k - 1) * loc.size
          /\ XmpRequests[k].last = k * loc.size - 1
    /\ \A i, j \in DOMAIN XmpRequests :
          i # j => ~Overlap(XmpRequests[i], XmpRequests[j])
    /\ Len(XmpRequests) = loc.requests
    /\ Len(ExifRequests) <= 1
    /\ \A i \in DOMAIN ExifRequests :
          /\ ExifRequests[i].first = 0 /\ ExifRequests[i].last = 65536
          /\ \A k \in DOMAIN XmpRequests :
                XmpRequests[k].first <= 65536 =>
                    Overlap(ExifRequests[i], XmpRequests[k])

\* the scan returned the packet after three chunks or more and the header
\* was read as well
C18_Witness ==
    /\ loc.pc = "returned"
    /\ Len(XmpRequests) >= 3
    /\ Len(ExifRequests) = 1

----------------------------------------------------------------------------
(* Claims about the function API.                                           *)

\* the caller passed the data of the image, by position or by keyword
Passed(arg) == arg.how # "absent" /\ Truthy(arg)

FnCall ==
    par.last.op \in {"imgparse.get_home_point", "imgparse.get_relative_altitude"}

C20_CodeBehaviour ==
    /\ (FnCall /\ Passed(par.last.args.exif_data)
               /\ Passed(par.last.args.xmp_data))
        => /\ par.n_xmp = 0
           /\ par.n_exif <= 1
           /\ par.n_exif = 1 =>
                 /\ par.last.op = "imgparse.get_relative_altitude"
                 /\ MakeOf(par.img) = "Sentera"
                 /\ ~HasTag(par.img, "RELATIVE_ALT")
    /\ (FnCall /\ Passed(par.last.args.exif_data)
               /\ par.last.args.xmp_data.empty
               /\ par.last.r.exc # "AttributeError")
        => par.n_xmp = 1

\* the fallback gave the altitude from session.txt after reading the EXIF
\* data a second time
C20_FallbackReadsAgain ==
    /\ par.last.op = "imgparse.get_relative_altitude"
    /\ Passed(par.last.args.exif_data)
    /\ Passed(par.last.args.xmp_data)
    /\ par.last.r.kind = "ok"
    /\ par.n_exif = 1

----------------------------------------------------------------------------
(* Claims about the addressing of the image.                                *)

Constructed == par.last.op = "__init__"

Given == par.last.r.val.given

Addressed == par.last.r.val.image_path

\* the str begins with "s3://"
BeginsWithScheme(text) ==
    Len(text) >= 5 /\ SubSeq(text, 1, 5) = <<"s", "3", ":", "/", "/">>

\* C19: a MetadataParser made from a str that begins with "s3://" addresses
\* the image as an S3Path, and from a str with any other prefix as a local
\* path.
C19_AddressedByPrefix ==
    (Constructed /\ Given.type = "str")
        => IF BeginsWithScheme(Given.text)
           THEN Addressed.type = "S3Path"
           ELSE Addressed.type = "Path"

\* what __init__ does: image_path[:4] has four characters and "s3://" five,
\* so every str, the S3 URIs included, becomes a local Path; path objects
\* are kept as given
C19_CodeBehaviour ==
    Constructed =>
        /\ Addressed.text = Given.text
        /\ Addressed.type = (IF Given.type = "str" THEN "Path" ELSE Given.type)

\* an S3 URI handed over as a str
C19_UriGiven ==
    Constructed /\ Given.type = "str" /\ BeginsWithScheme(Given.text)

----------------------------------------------------------------------------
(* Claims about what the locator returns.                                   *)

\* the first complete packet of the stream: from the first open marker to
\* the end of the first close marker after it
FirstPacket(stream) ==
    LET o == SetMin(Occurrences(XmpOpen, stream))
        c == SetMin({x \in Occurrences(XmpClose, stream) : x >= o + Len(XmpOpen)})
    IN  SubSeq(stream, o, c + Len(XmpClose) - 1)

\* C21: whenever the locator returns a string, the string is the first
\* complete packet of the stream, from the first open marker to the first
\* close marker after it, with exactly one close marker in it.
C21_FirstPacket ==
    loc.pc = "returned" =>
        /\ loc.result = FirstPacket(loc.stream)
        /\ Cardinality(Occurrences(XmpClose, loc.result)) = 1

\* what the locator returns: the text from the first open marker to the
\* last close marker read so far
C21_CodeBehaviour ==
    loc.pc = "returned" =>
        /\ loc.result = FULL_XMP(loc.file_so_far).text
        /\ SubSeq(loc.result, 1, Len(XmpOpen)) = XmpOpen
        /\ Cardinality(Occurrences(XmpOpen, loc.file_so_far)) >= 1

\* a chunk brought the end of the first packet and a later close marker: the
\* string returned holds both
C21_TwoCloseMarkers ==
    /\ loc.pc = "returned"
    /\ loc.requests > 1
    /\ Cardinality(Occurrences(XmpClose, loc.result)) = 2

IsPrefix(a, b) == Len(a) <= Len(b) /\ SubSeq(b, 1, Len(a)) = a

\* the outcome of a finished scan
Outcome == IF loc.pc = "returned" THEN Ok(loc.result) ELSE Raise(loc.exc)

Finished == loc.pc \in {"returned", "raised"}

\* C28: for a fixed stream the outcome of the locator is the same for every
\* chunk size: the same packet string, or ParsingError.
C28_SizeIndependent ==
    Finished => \A n \in 1..MaxChunk : ReadXmpString(loc.stream, n) = Outcome

\* what holds of the chunk size: the scan is the function of stream and
\* size; it raises for one size exactly if it raises for every size, and
\* what it returns begins at the first open marker whatever the size
C28_CodeBehaviour ==
    Finished =>
        /\ Outcome = ReadXmpString(loc.stream, loc.size)
        /\ \A n \in 1..MaxChunk :
              LET other == ReadXmpString(loc.stream, n)
              IN  /\ other.kind = Outcome.kind
                  /\ other.kind = "ok" =>
                        \/ IsPrefix(Outcome.val, other.val)
                        \/ IsPrefix(other.val, Outcome.val)

\* two sizes, two strings
C28_SizesDisagree ==
    /\ loc.pc = "returned"
    /\ \E n \in 1..MaxChunk :
          /\ ReadXmpString(loc.stream, n).kind = "ok"
          /\ ReadXmpString(loc.stream, n).val # loc.result

\* C25: on the same content the S3 reader and the local reader give the
\* same result: the same packet string, or ParsingError in both.
C25_ReadersAgree ==
    Finished =>
        /\ loc.reader = "s3" => Outcome = ReadXmpStringLocal(loc.stream, loc.size)
        /\ loc.reader = "local" => Outcome = ReadXmpStringS3(loc.stream, loc.size)

\* what the readers share: the S3 reader finds a close marker only where it
\* ends the buffer; a string it returns begins where the local reader's does
C25_CodeBehaviour ==
    (Finished /\ loc.reader = "s3") =>
        LET local == ReadXmpStringLocal(loc.stream, loc.size)
        IN  /\ Outcome.kind = "ok" => local.kind = "ok"
            /\ local.kind = "raise" => Outcome.kind = "raise"

\* the local reader returns the packet where the S3 reader raises
C25_S3Misses ==
    /\ loc.reader = "s3"
    /\ loc.pc = "raised"
    /\ ReadXmpStringLocal(loc.stream, loc.size).kind = "ok"
    /\ ReadXmpStringLocal(loc.stream, loc.size).val # <<>>

----------------------------------------------------------------------------
(* Claims about failures of the elevation request.                          *)

\* one of the two lookups of the last call ended in a transport failure
TransportFailed ==
    \/ par.last.home = Raise("RequestException")
    \/ par.last.image = Raise("RequestException")

\* C22: a transport-level failure of the elevation request (the HTTP call
\* raises, or brings no JSON body) is handled like a status other than OK:
\* TerrainAPIError with fallback off, the plain default altitude with
\* fallback on.
C22_TransportHandled ==
    (LastAltitude("terrain") /\ TransportFailed)
    => IF par.last.args.fallback
       THEN par.last.r = DefaultNow
       ELSE par.last.r = Raise("TerrainAPIError")

\* what the code does: the exception of the request leaves
\* get_relative_altitude as it is, whatever fallback says
C22_CodeBehaviour ==
    (LastAltitude("terrain") /\ TransportFailed)
    => par.last.r = Raise("RequestException")

\* fallback is on and the call raises the exception of the request
C22_FallbackRaises ==
    /\ LastAltitude("terrain")
    /\ par.last.args.fallback
    /\ par.last.home.kind = "ok"
    /\ par.last.image = Raise("RequestException")
    /\ par.last.r = Raise("RequestException")
    /\ DefaultNow.kind = "ok"

\* the argument triples of the two lookups of the instance's image
KeyOf(point) == <<point[1], point[2], "key">>

HomeKey == KeyOf(GetHomePoint(par.img, Reliable, World).r.val)

ImageKey == KeyOf(GetLatLon(par.img, Reliable, World).r.val)

\* a lookup of the call just made that found nothing cached sent one
\* request, and what it returned is what the cache holds from now on
NewRequest(key, lookup) ==
    /\ ter'.http[key].sent = ter.http[key].sent + 1
    /\ lookup.kind = "ok" =>
          /\ key \in DOMAIN ter'.cache
          /\ ter'.cache[key] = lookup.val
          /\ ter'.http[key].ok = ter.http[key].ok + 1

\* one terrain call of get_relative_altitude, seen from the cache
FailureStoresNothing ==
    (/\ par'.last.op = "get_relative_altitude"
     /\ par'.last.args.alt_source = "terrain")
    => /\ \A t \in DOMAIN ter.cache :
             t \in DOMAIN ter'.cache /\ ter'.cache[t] = ter.cache[t]
       /\ par'.last.home.kind = "raise" =>
             /\ ter'.cache = ter.cache
             /\ HomeKey \notin DOMAIN ter'.cache
       /\ par'.last.image.kind = "raise" => ImageKey \notin DOMAIN ter'.cache
       /\ (par'.last.home.kind # "none" /\ HomeKey \notin DOMAIN ter.cache)
             => NewRequest(HomeKey, par'.last.home)
       /\ (/\ par'.last.image.kind # "none"
           /\ ImageKey \notin DOMAIN ter.cache
           /\ ImageKey # HomeKey)
             => NewRequest(ImageKey, par'.last.image)

\* the home lookup succeeded and the image lookup failed: the home
\* elevation is in the cache, and the call fell back or raised
HomeKept ==
    (/\ LastAltitude("terrain")
     /\ par.last.home.kind = "ok"
     /\ par.last.image = Raise("TerrainAPIError"))
    => /\ HomeKey \in DOMAIN ter.cache
       /\ ter.cache[HomeKey] = par.last.home.val
       /\ par.last.r = IF par.last.args.fallback
                       THEN DefaultNow
                       ELSE Raise("TerrainAPIError")

\* C27: a failed elevation lookup stores nothing in the cache, so a later
\* call with the same triple sends a new request and returns its result;
\* the entries of other triples stay as they are, and when the home lookup
\* succeeds and the image lookup fails the home elevation stays cached
\* while the altitude call falls back or raises.
C27_FailureNotCached == [](HomeKept) /\ [][FailureStoresNothing]_vars

\* the image lookup failed once and was sent again by the next call, which
\* took the home elevation from the cache
C27_Witness ==
    /\ LastAltitude("terrain")
    /\ par.last.home.kind = "ok"
    /\ par.last.image.kind = "ok"
    /\ ImageKey # HomeKey
    /\ ter.http[HomeKey] = [sent |-> 1, ok |-> 1]
    /\ ter.http[ImageKey] = [sent |-> 2, ok |-> 1]
    /\ ter.cache[ImageKey] = par.last.image.val

----------------------------------------------------------------------------
(* Claims about the terrain offset in the function API.                     *)

\* the last call was imgparse.get_relative_altitude(alt_source="terrain"),
\* both elevation lookups succeeded and the call returned
FnOffsetComputed ==
    /\ par.last.op = "imgparse.get_relative_altitude"
    /\ par.last.args.alt_source = "terrain"
    /\ par.last.home.kind = "ok"
    /\ par.last.image.kind = "ok"
    /\ par.last.r.kind = "ok"

C23_CodeBehaviour ==
    FnOffsetComputed =>
        par.last.r.val = DefaultNow.val
                         + (IF HasTag(par.img, "RELATIVE_ALT")
                            THEN par.last.home.val - par.last.image.val
                            ELSE 0)

\* a Sentera image without the tag, above ground lower than its home point:
\* the altitude returned is the one of session.txt alone
C23_OffsetDropped ==
    /\ FnOffsetComputed
    /\ MakeOf(par.img) = "Sentera"
    /\ ~HasTag(par.img, "RELATIVE_ALT")
    /\ par.last.home.val - par.last.image.val > 0
    /\ par.last.r = DefaultNow

----------------------------------------------------------------------------
(* Claims about a fetch that raises.                                        *)

\* the calls that read the EXIF map before anything else
ReadsExifFirst(last) ==
    last.op \in {"get_make_and_model", "get_lat_lon", "get_altitude_msl"}

\* one call, seen from the two slots (a call may fetch the same map more
\* than once when it falls back after a failure): every failure was a
\* fetch; a fetch that raised left its slot empty unless a later fetch of
\* the call succeeded; a slot changes only from empty to the image's map,
\* and only by a fetch of its own; an empty EXIF slot is fetched again by
\* the next call that reads it
FailedFetchLeavesSlot ==
    /\ par'.n_exif - par.n_exif >= par'.fail_exif - par.fail_exif
    /\ par'.n_xmp - par.n_xmp >= par'.fail_xmp - par.fail_xmp
    /\ (/\ par'.fail_exif > par.fail_exif
        /\ par'.n_exif - par.n_exif = par'.fail_exif - par.fail_exif)
          => par'._exif_data = NoSlot
    /\ (/\ par'.fail_xmp > par.fail_xmp
        /\ par'.n_xmp - par.n_xmp = par'.fail_xmp - par.fail_xmp)
          => par'._xmp_data = NoSlot
    /\ par'._exif_data # par._exif_data =>
          /\ par._exif_data = NoSlot
          /\ par'.n_exif - par'.fail_exif = par.n_exif - par.fail_exif + 1
          /\ par'._exif_data = Slot(par.img.exif)
    /\ par'._xmp_data # par._xmp_data =>
          /\ par._xmp_data = NoSlot
          /\ par'.n_xmp - par'.fail_xmp = par.n_xmp - par.fail_xmp + 1
          /\ par'._xmp_data = Slot(par.img.xmp)
    /\ (ReadsExifFirst(par'.last) /\ ~par._exif_data.set) =>
          par'.n_exif = par.n_exif + 1

\* a slot is filled exactly if one of its fetches succeeded
FilledBySuccess ==
    /\ par._exif_data.set <=> par.n_exif - par.fail_exif = 1
    /\ par._xmp_data.set <=> par.n_xmp - par.fail_xmp = 1
    /\ par.n_exif - par.fail_exif \in {0, 1}
    /\ par.n_xmp - par.fail_xmp \in {0, 1}

\* C26: if get_exif_data or get_xmp_data raises during a lazy fetch, that
\* slot stays empty and the other slot is left as it was, so the next
\* access fetches again.
C26_FailedFetchRetried == [](FilledBySuccess) /\ [][FailedFetchLeavesSlot]_vars

\* the EXIF fetch raised once and the next access fetched again, with
\* success
C26_Witness ==
    /\ par.fail_exif = 1
    /\ par.n_exif = 2
    /\ par._exif_data = Slot(par.img.exif)
    /\ par.last.r.kind = "ok"

----------------------------------------------------------------------------
(* Claims about the cache decorator.                                        *)

\* a call has gone through the decorator
CalledCached == dec.last.using # None

\* every entry of the cache is the argument of a call made with the
\* image_path the cache is used with now
EntriesOfCurrentUsing ==
    /\ DOMAIN dec.origin = DOMAIN dec.cache
    /\ \A a \in DOMAIN dec.cache : dec.origin[a] = dec.using

\* one call, seen from the cache: with another image_path nothing of the
\* old cache is kept and only arguments of this call are stored; a cached
\* value is injected only on a match, and it is the value the cache held
ClearedOrInjected ==
    /\ dec'.last.using # dec.using =>
          /\ dec'.last.injected = {}
          /\ dec'.last.dropped = DOMAIN dec.cache
          /\ DOMAIN dec'.cache = Supplied(dec'.last.passed)
          /\ \A a \in DOMAIN dec'.cache :
                dec'.cache[a] = dec'.last.passed[a].value.data
    /\ \A a \in dec'.last.injected :
          /\ dec'.last.using = dec.using
          /\ a \in DOMAIN dec.cache
          /\ dec'.last.received[a].value = Slot(dec.cache[a])

\* C24: every value held in the cache was supplied by a call whose `using`
\* value equals the cache's current `using`; a call with a different
\* `using` empties the cache before anything is stored, and a cached value
\* is injected only when `using` matches.
C24_CacheOfCurrentUsing ==
    [](EntriesOfCurrentUsing) /\ [][ClearedOrInjected]_vars

\* a call for another image found the cache filled: the entries were
\* dropped and the cache holds the data of this call alone
C24_Witness ==
    /\ CalledCached
    /\ dec.last.dropped = ArgsToCache
    /\ dec.last.injected = {}
    /\ DOMAIN dec.cache = {"exif_data"}
    /\ dec.cache["exif_data"] = dec.last.passed["exif_data"].value.data

\* C30: a value the caller passes explicitly for a cached argument, by
\* position or by keyword, is never replaced by the cached value: the cache
\* is consulted only for arguments the caller left out.
C30_ExplicitArgumentKept ==
    CalledCached =>
        \A a \in ArgsToCache :
            Passed(dec.last.passed[a]) =>
                dec.last.received[a].value = dec.last.passed[a].value

\* what the code does: on a match every cached argument is set to the cached
\* value, passed or not; an argument is left as passed where nothing was
\* injected
C30_CodeBehaviour ==
    CalledCached =>
        \A a \in ArgsToCache :
            IF a \in dec.last.injected
            THEN /\ dec.last.received[a].value = Slot(dec.cache[a])
                 /\ dec.last.received[a].how # "absent"
            ELSE dec.last.received[a] = dec.last.passed[a]

\* the caller passed one dict and func received the other, cached one
C30_Replaced ==
    /\ CalledCached
    /\ \E a \in dec.last.injected :
          /\ Passed(dec.last.passed[a])
          /\ dec.last.received[a].how = dec.last.passed[a].how
          /\ dec.last.received[a].value # dec.last.passed[a].value

----------------------------------------------------------------------------
(* Claims about threads inside hit_terrain_api.                             *)

\* the threads that have returned an elevation for key
ReturnedFor(key) ==
    {t \in Threads :
        thr[t].key = key /\ thr[t].pc = "done" /\ thr[t].r.kind = "ok"}

\* the threads that sent a request for key
RequestedFor(key) == {t \in Threads : thr[t].key = key /\ thr[t].requested}

\* C29: when two threads call hit_terrain_api concurrently with the same
\* uncached triple, under every interleaving at most one HTTP request is
\* sent for the triple and both calls return the same elevation.
C29_OneRequestForAll ==
    \A key \in Triples :
        /\ ter.http[key].sent = ter.http[key].ok => ter.http[key].sent <= 1
        /\ \A t, u \in ReturnedFor(key) : thr[t].r = thr[u].r

\* every thread that finds the triple uncached sends its own request: one
\* request per miss; a thread returns the elevation of its own request or,
\* on a hit, one that a thread stored before; once a thread has returned
\* from a miss the cache holds an elevation that one of the requests gave
C29_OneRequestPerMiss ==
    \A key \in Triples :
        /\ ter.http[key].sent = Cardinality(RequestedFor(key))
        /\ \A t \in ReturnedFor(key) :
              /\ thr[t].requested => thr[t].r = Ok(thr[t].val)
              /\ ~thr[t].requested =>
                    \E u \in ReturnedFor(key) \ {t} :
                        thr[u].requested /\ thr[t].r = Ok(thr[u].val)
              /\ key \in DOMAIN ter.cache
        /\ key \in DOMAIN ter.cache =>
              \E u \in ReturnedFor(key) :
                  thr[u].requested /\ ter.cache[key] = thr[u].val

\* two threads found the same triple uncached, both requests were answered
\* OK with different elevations, and each returned its own
C29_Witness ==
    \E key \in Triples :
        /\ ter.http[key] = [sent |-> 2, ok |-> 2]
        /\ Cardinality(ReturnedFor(key)) = 2
        /\ \E t, u \in ReturnedFor(key) : thr[t].r # thr[u].r

====
